---- MODULE Spec2Model ----
(***************************************************************************)
(* Verification model of the medical-retrieval-report-agent repository:    *)
(* the vector index store services (Elasticsearch, OpenSearch and the      *)
(* legacy Elasticsearch service), the document ingestion of                *)
(* DocumentProcessor, the /search route and the token-budgeted batch       *)
(* partitioner batch_files.                                                *)
(***************************************************************************)
EXTENDS Integers, Sequences, FiniteSets, TLC

(***************************************************************************)
(* Bounds of the model.                                                    *)
(***************************************************************************)
\* vectors have 0..MaxDim components (stand-in for 384 / 768)
MaxDim == 2
\* at most MaxDocs chunks are kept in the index
MaxDocs == 2
\* largest top_k a caller passes to search
MaxTopK == 2
\* longest files_data list given to batch_files
MaxFiles == 5

VARIABLES
    backend,           \* which VectorDBService the factory built
    vector_dimension,  \* self.vector_dimension of the service
    auto_create,       \* store setting action.auto_create_index
    index,             \* the single logical index held by the store
    last,              \* the service call that just returned
    files_data,        \* batch_files: the input list
    max_tokens,        \* batch_files: max_tokens_per_batch
    bpos,              \* batch_files: loop position in files_data
    batches,           \* batch_files: closed batches
    current_batch,     \* batch_files: the open batch
    current_tokens,    \* batch_files: token sum of the open batch
    bpc,               \* batch_files: "loop" or "done"
    processor,         \* which DocumentProcessor runs: "app" or "legacy"
    model_dim,         \* length of the vectors the encoder model puts out
    dir_exists,        \* os.path.exists(documents_dir)
    walk,              \* the files of documents_dir in os.walk order
    ipc,               \* process_all_documents: position of the request
    ipos,              \* process_all_documents: next file of walk
    processed_files,   \* process_all_documents: the list being built
    visited,           \* the .docx files handed to process_document so far
    response,          \* what the /process request got back
    doc_text,          \* get_chunks_with_pages: the document text
    processed_chunks,  \* get_chunks_with_pages: the list it returned
    cpc,               \* get_chunks_with_pages: "ready" or "done"
    embed_text,        \* get_embedding: the text, a sequence of characters
    max_length,        \* tokenizer.model_max_length
    embedder,          \* which DocumentProcessor embeds: "app" or "legacy"
    embedding,         \* what get_embedding returned or raised
    epc,               \* position of the get_embedding call
    conn_backend,      \* _connect: the service being constructed
    max_retries,       \* settings.MAX_RETRIES
    retries,           \* _connect: the loop counter
    attempt_log,       \* _connect: the outcome of every attempt so far
    sleeps,            \* _connect: how often time.sleep(retry_interval) ran
    kpc,               \* _connect: "loop", "sleep", "connected" or "raised"
    conn_error,        \* _connect: the exception that left it
    es_index,          \* the index behind an ElasticsearchService of the app
    os_index,          \* the index behind an OpenSearchService
    pair_last,         \* the operation both services just ran, and its results
    requests,          \* the HTTP requests the server has accepted, each with its position
    reindex_by,        \* the request that has deleted the index and not yet re-created it
    store_call,        \* the last call a request handler made on the index
    ingestions,        \* the rows of table folder_ingestions, in id order
    today,             \* date.today()
    folder_last,       \* the folder ingestion request that just came back
    token,             \* SharePointService: self.token
    token_valid,       \* whether time.time() is still below token_expires_at - 300
    minted,            \* how many tokens the identity provider has handed out
    request_retries,   \* _make_request_with_retry: its argument max_retries
    attempt,           \* _make_request_with_retry: the loop variable
    request_log,       \* _make_request_with_retry: what each attempt did
    sp_return,         \* _make_request_with_retry: how the call ended
    sp_calls           \* how many calls the service has taken

storeVars == <<backend, vector_dimension, auto_create, index, last>>
batchVars == <<files_data, max_tokens, bpos, batches, current_batch, current_tokens, bpc>>
ingestVars == <<processor, model_dim, dir_exists, walk, ipc, ipos, processed_files,
                visited, response>>
\* the functions that are checked on their own
embedVars == <<embed_text, max_length, embedder, embedding, epc>>
chunkVars == <<doc_text, processed_chunks, cpc>>
connVars == <<conn_backend, max_retries, retries, attempt_log, sleeps, kpc, conn_error>>
pairVars == <<es_index, os_index, pair_last>>
serveVars == <<requests, reindex_by, store_call>>
folderVars == <<ingestions, today, folder_last>>
retryVars == <<token, token_valid, minted, request_retries, attempt, request_log,
               sp_return, sp_calls>>
lateVars == <<serveVars, folderVars, retryVars>>
\* what a request handler of the server leaves alone
serveRest == <<storeVars, batchVars, ingestVars, chunkVars, embedVars, connVars, pairVars,
               folderVars, retryVars>>
folderRest == <<storeVars, batchVars, ingestVars, chunkVars, embedVars, connVars, pairVars,
                serveVars, retryVars>>
retryRest == <<storeVars, batchVars, ingestVars, chunkVars, embedVars, connVars, pairVars,
               serveVars, folderVars>>
unitVars == <<chunkVars, embedVars, connVars, pairVars, lateVars>>
vars == <<storeVars, batchVars, ingestVars, unitVars>>

(***************************************************************************)
(* Values.                                                                 *)
(***************************************************************************)
Backends == {"elasticsearch", "opensearch", "elasticsearch_legacy"}
Dims == 1..MaxDim
\* a mapping without an enforced dimension (index created by a write)
Dynamic == 0
\* a document field the writer did not set
NoField == -1

RECURSIVE SeqsUpTo(_, _)
SeqsUpTo(S, n) ==
    IF n = 0 THEN {<<>>}
    ELSE LET shorter == SeqsUpTo(S, n - 1)
         IN shorter \cup {Append(s, x) : s \in {t \in shorter : Len(t) = n - 1}, x \in S}

\* embeddings as the encoder or a caller may hand them over, told apart by length
Vectors == SeqsUpTo({1}, MaxDim)
Names == {"a.docx", "b.docx"}
PageNumbers == 1..2
\* a text is the sequence of its tokens
Contents == {<<"chest", "pain">>, <<"angina">>}

\* the empty string passed as document_id
EmptyId == <<"", 0>>
\* f"{document_name}_{page_num}"
DocId(name, page) == <<name, page>>
\* the _id the store generates for the n-th write without id
AutoId(n) == <<"_auto", n>>

NoIndex == [exists |-> FALSE, dims |-> Dynamic, docs |-> <<>>, visible |-> <<>>]
NewIndex(d) == [exists |-> TRUE, dims |-> d, docs |-> <<>>, visible |-> <<>>]

(***************************************************************************)
(* The store behind the client object (self.es / self.client).             *)
(***************************************************************************)
RECURSIVE PosOfId(_, _, _)
PosOfId(docs, id, i) ==
    IF i > Len(docs) THEN 0
    ELSE IF docs[i].id = id THEN i
    ELSE PosOfId(docs, id, i + 1)

\* a write with an _id replaces the document of that _id, else appends
PutDoc(docs, doc) ==
    LET p == PosOfId(docs, doc.id, 1)
    IN IF p = 0 THEN Append(docs, doc) ELSE [docs EXCEPT ![p] = doc]

\* client.index(index, body[, id][, refresh]): the store's answer
StoreIndexDoc(idx, doc, refresh, auto) ==
    IF ~idx.exists
    THEN IF auto
         THEN [ok |-> TRUE,
               index |-> [exists |-> TRUE, dims |-> Dynamic, docs |-> <<doc>>,
                          visible |-> IF refresh THEN <<doc>> ELSE <<>>]]
         ELSE [ok |-> FALSE, index |-> idx]
    ELSE IF idx.dims # Dynamic /\ Len(doc.vector) # idx.dims
    THEN [ok |-> FALSE, index |-> idx]
    ELSE LET docs2 == PutDoc(idx.docs, doc)
         IN [ok |-> TRUE,
             index |-> [idx EXCEPT !.docs = docs2,
                                   !.visible = IF refresh THEN docs2 ELSE @]]

\* similarity score the store computes for one document
RECURSIVE Dot(_, _, _)
Dot(q, v, i) ==
    IF i > Len(q) \/ i > Len(v) THEN 0
    ELSE q[i] * v[i] + Dot(q, v, i + 1)

Score(q, v) == Dot(q, v, 1) + 1

\* position of the best not yet taken document: highest score, first indexed
BestPos(docs, q, taken) ==
    CHOOSE i \in (1..Len(docs)) \ taken :
        \A j \in (1..Len(docs)) \ taken :
            \/ Score(q, docs[i].vector) > Score(q, docs[j].vector)
            \/ (Score(q, docs[i].vector) = Score(q, docs[j].vector) /\ i <= j)

RECURSIVE TopHits(_, _, _, _)
TopHits(docs, q, k, taken) ==
    IF k = 0 \/ Cardinality(taken) = Len(docs) THEN <<>>
    ELSE LET i == BestPos(docs, q, taken)
         IN <<[doc |-> docs[i], score |-> Score(q, docs[i].vector)]>>
            \o TopHits(docs, q, k - 1, taken \cup {i})

\* client.search(index, body): ok = FALSE stands for the raised exception
StoreSearch(idx, q, k) ==
    IF ~idx.exists \/ idx.dims = Dynamic \/ Len(q) # idx.dims
    THEN [ok |-> FALSE, hits |-> <<>>]
    ELSE [ok |-> TRUE, hits |-> TopHits(idx.visible, q, k, {})]

(***************************************************************************)
(* ElasticsearchService (src/app/services/vector_db).                      *)
(***************************************************************************)
\* mutant: creates the index without looking whether it exists
ESCreateIndexAnew(idx, dim, up) ==
    IF ~up THEN [ret |-> FALSE, index |-> idx]
    ELSE [ret |-> TRUE, index |-> NewIndex(dim)]

ESCreateIndex(idx, dim, up) ==
    IF ~up THEN [ret |-> FALSE, index |-> idx]
    ELSE IF ~idx.exists THEN [ret |-> TRUE, index |-> NewIndex(dim)]
    ELSE [ret |-> TRUE, index |-> idx]

\* mutant: the delete is sent without asking whether the index exists
ESDeleteIndexUnguarded(idx, up) ==
    IF ~up \/ ~idx.exists THEN [ret |-> FALSE, index |-> idx]
    ELSE [ret |-> TRUE, index |-> NoIndex]

ESDeleteIndex(idx, up) ==
    IF ~up THEN [ret |-> FALSE, index |-> idx]
    ELSE IF idx.exists THEN [ret |-> TRUE, index |-> NoIndex]
    ELSE [ret |-> TRUE, index |-> idx]

ESIndexDocument(idx, dim, doc, up, auto) ==
    IF doc.id = EmptyId \/ doc.document_name = "" \/ doc.content = <<>> \/ doc.vector = <<>>
    THEN [ret |-> FALSE, index |-> idx]
    ELSE IF Len(doc.vector) # dim
    THEN [ret |-> FALSE, index |-> idx]
    ELSE IF ~up THEN [ret |-> FALSE, index |-> idx]
    ELSE LET r == StoreIndexDoc(idx, doc, TRUE, auto)
         IN [ret |-> r.ok, index |-> r.index]

ESHit(h) ==
    [document_id |-> h.doc.id, document_name |-> h.doc.document_name,
     page_number |-> h.doc.page_number, content |-> h.doc.content,
     score |-> h.score]

ESSearch(idx, q, k, up) ==
    IF ~up THEN <<>>
    ELSE LET r == StoreSearch(idx, q, k)
         IN [i \in 1..Len(r.hits) |-> ESHit(r.hits[i])]

(***************************************************************************)
(* OpenSearchService (src/app/services/vector_db).                         *)
(***************************************************************************)
OSCreateIndex(idx, dimensions, up) ==
    IF ~up THEN [ret |-> FALSE, index |-> idx]
    ELSE IF idx.exists THEN [ret |-> TRUE, index |-> idx]
    ELSE [ret |-> TRUE, index |-> NewIndex(dimensions)]

\* _ensure_index: ok = FALSE stands for the exception of the last attempt
OSEnsureIndex(idx, dim, up) ==
    IF ~up THEN [ok |-> FALSE, index |-> idx]
    ELSE IF ~idx.exists THEN [ok |-> TRUE, index |-> OSCreateIndex(idx, dim, up).index]
    ELSE [ok |-> TRUE, index |-> idx]

OSDeleteIndex(idx, up) ==
    IF ~up THEN [ret |-> FALSE, index |-> idx]
    ELSE IF idx.exists THEN [ret |-> TRUE, index |-> NoIndex]
    ELSE [ret |-> TRUE, index |-> idx]

OSIndexDocument(idx, dim, doc, up, auto) ==
    LET e == OSEnsureIndex(idx, dim, up)
    IN IF ~e.ok THEN [ret |-> FALSE, index |-> e.index]
       ELSE LET r == StoreIndexDoc(e.index, doc, FALSE, auto)
            IN [ret |-> r.ok, index |-> r.index]

\* _source keeps only the listed fields: document_name is not among them
OSHit(h) ==
    [document_id |-> h.doc.id, document_name |-> "Unknown Document",
     page_number |-> IF h.doc.chunk_index = NoField THEN 0 ELSE h.doc.chunk_index,
     content |-> h.doc.content, score |-> h.score,
     file_type |-> "", keywords |-> <<>>, medical_terms |-> <<>>]

OSSearch(idx, dim, q, k, up) ==
    LET e == OSEnsureIndex(idx, dim, up)
    IN IF ~e.ok THEN [ret |-> <<>>, index |-> e.index]
       ELSE LET r == StoreSearch(e.index, q, k)
            IN [ret |-> [i \in 1..Len(r.hits) |-> OSHit(r.hits[i])],
                index |-> e.index]

(***************************************************************************)
(* ElasticsearchService (src/services/vector_db, used by the root app).    *)
(***************************************************************************)
LegacyCreateIndex(idx, dimensions, up) ==
    IF ~up THEN [ret |-> FALSE, index |-> idx]
    ELSE IF idx.exists THEN [ret |-> TRUE, index |-> idx]
    ELSE [ret |-> TRUE, index |-> NewIndex(dimensions)]

LegacyDeleteIndex(idx, up) ==
    IF ~up THEN [ret |-> FALSE, index |-> idx]
    ELSE IF idx.exists THEN [ret |-> TRUE, index |-> NoIndex]
    ELSE [ret |-> TRUE, index |-> idx]

LegacyIndexDocument(idx, doc, up, auto) ==
    IF ~up THEN [ret |-> FALSE, index |-> idx]
    ELSE LET r == StoreIndexDoc(idx, doc, FALSE, auto)
         IN [ret |-> r.ok, index |-> r.index]

LegacyHit(h) == [id |-> h.doc.id, score |-> h.score, source |-> h.doc]

LegacySearch(idx, q, k, up) ==
    IF ~up THEN <<>>
    ELSE LET r == StoreSearch(idx, q, k)
         IN [i \in 1..Len(r.hits) |-> LegacyHit(r.hits[i])]

(***************************************************************************)
(* The service object built by VectorDBFactory and the calls on it.        *)
(***************************************************************************)
TypeOK ==
    /\ backend \in Backends
    /\ vector_dimension \in Dims
    /\ auto_create \in BOOLEAN
    /\ index.exists \in BOOLEAN
    /\ index.dims \in Dims \cup {Dynamic}
    /\ Len(index.docs) <= MaxDocs + 1

NoResponse == [code |-> 0, status |-> "", files |-> <<>>]

\* every service method ends in "except Exception: ... return", so a call
\* leaves no exception behind
Returned == "returned"

\* what is known of a call once it has returned: ok is the bool returned
\* (TRUE for search), pre the index before the call, answered whether the
\* store served the request
Call(op, ok, pre, dims, vec, k, answered, hits) ==
    [op |-> op, ok |-> ok, raised |-> Returned, pre |-> pre, dims |-> dims,
     veclen |-> Len(vec), k |-> k, answered |-> answered, hits |-> hits]

HitIds(hits, legacy) ==
    [i \in 1..Len(hits) |-> IF legacy THEN hits[i].id ELSE hits[i].document_id]

NoCall == Call("none", TRUE, NoIndex, 0, <<>>, 0, FALSE, <<>>)

IngestIdle ==
    /\ processor = "app"
    /\ model_dim = 1
    /\ dir_exists = FALSE
    /\ walk = <<>>
    /\ ipc = "off"
    /\ ipos = 1
    /\ processed_files = <<>>
    /\ visited = <<>>
    /\ response = NoResponse

EmbedIdle ==
    /\ embed_text = <<>>
    /\ max_length = 0
    /\ embedder = "none"
    /\ embedding = [raised |-> "none"]
    /\ epc = "off"

ChunkIdle ==
    /\ doc_text = <<>>
    /\ processed_chunks = <<>>
    /\ cpc = "off"

ConnIdle ==
    /\ conn_backend = "none"
    /\ max_retries = 0
    /\ retries = 0
    /\ attempt_log = <<>>
    /\ sleeps = 0
    /\ kpc = "off"
    /\ conn_error = "none"

PairIdle ==
    /\ es_index = NoIndex
    /\ os_index = NoIndex
    /\ pair_last = [op |-> "off"]

ServeIdle ==
    /\ requests = <<>>
    /\ reindex_by = 0
    /\ store_call = [op |-> "off"]

FolderIdle ==
    /\ ingestions = <<>>
    /\ today = 0
    /\ folder_last = [op |-> "off"]

RetryIdle ==
    /\ token = 0
    /\ token_valid = FALSE
    /\ minted = 0
    /\ request_retries = 0
    /\ attempt = 0
    /\ request_log = <<>>
    /\ sp_return = "off"
    /\ sp_calls = 0

LateIdle ==
    /\ ServeIdle
    /\ FolderIdle
    /\ RetryIdle

UnitIdle ==
    /\ ChunkIdle
    /\ EmbedIdle
    /\ ConnIdle
    /\ PairIdle
    /\ LateIdle

BatchIdle ==
    /\ files_data = <<>>
    /\ max_tokens = 0
    /\ bpos = 1
    /\ batches = <<>>
    /\ current_batch = <<>>
    /\ current_tokens = 0
    /\ bpc = "done"

\* the factory builds one service; OpenSearchService.__init__ ends with
\* _ensure_index
Init ==
    /\ backend \in Backends
    /\ vector_dimension \in Dims
    /\ auto_create \in BOOLEAN
    /\ \E pre \in {NoIndex} \cup {NewIndex(d) : d \in Dims} :
          index = IF backend = "opensearch"
                  THEN OSEnsureIndex(pre, vector_dimension, TRUE).index
                  ELSE pre
    /\ last = NoCall
    /\ BatchIdle
    /\ UnitIdle
    /\ IngestIdle

CreateIndex ==
    \E d \in Dims, up \in BOOLEAN :
        LET dims == IF backend = "elasticsearch" THEN vector_dimension ELSE d
            r == CASE backend = "elasticsearch" -> ESCreateIndex(index, dims, up)
                   [] backend = "opensearch" -> OSCreateIndex(index, dims, up)
                   [] OTHER -> LegacyCreateIndex(index, dims, up)
        IN /\ index' = r.index
           /\ last' = Call("create_index", r.ret, index, dims, <<>>, 0, up, <<>>)
           /\ UNCHANGED <<backend, vector_dimension, auto_create, batchVars, unitVars, ingestVars>>

DeleteIndex ==
    \E up \in BOOLEAN :
        LET r == CASE backend = "elasticsearch" -> ESDeleteIndex(index, up)
                   [] backend = "opensearch" -> OSDeleteIndex(index, up)
                   [] OTHER -> LegacyDeleteIndex(index, up)
        IN /\ index' = r.index
           /\ last' = Call("delete_index", r.ret, index, 0, <<>>, 0, up, <<>>)
           /\ UNCHANGED <<backend, vector_dimension, auto_create, batchVars, unitVars, ingestVars>>

\* the chunks callers hand to index_document: two contents under one id,
\* a second page of the same document, and a second document
Chunks ==
    {[document_name |-> "a.docx", page_number |-> 1, content |-> <<"chest", "pain">>],
     [document_name |-> "a.docx", page_number |-> 1, content |-> <<"angina">>],
     [document_name |-> "a.docx", page_number |-> 2, content |-> <<"angina">>],
     [document_name |-> "b.docx", page_number |-> 1, content |-> <<"chest", "pain">>]}

\* the required argument a caller may leave empty
Missing == {"none", "document_id", "document_name", "content", "vector"}

\* ElasticsearchService takes the id from the caller; the other two
\* services pass no id and the store generates one
IndexDocument ==
    \E c \in Chunks, vec \in Vectors \ {<<>>}, missing \in Missing, up \in BOOLEAN :
        LET name == c.document_name
            page == c.page_number
            content == c.content
            vector == IF missing = "vector" THEN <<>> ELSE vec
            id == IF backend = "elasticsearch"
                  THEN (IF missing = "document_id" THEN EmptyId ELSE DocId(name, page))
                  ELSE AutoId(Len(index.docs) + 1)
            doc == [id |-> id,
                    document_name |-> IF missing = "document_name" THEN "" ELSE name,
                    page_number |-> page, chunk_index |-> NoField,
                    content |-> IF missing = "content" THEN <<>> ELSE content,
                    vector |-> vector]
            r == CASE backend = "elasticsearch" ->
                        ESIndexDocument(index, vector_dimension, doc, up, auto_create)
                   [] backend = "opensearch" ->
                        OSIndexDocument(index, vector_dimension, doc, up, auto_create)
                   [] OTHER -> LegacyIndexDocument(index, doc, up, auto_create)
        IN /\ backend # "elasticsearch" => missing = "none"
           /\ Len(r.index.docs) <= MaxDocs
           /\ index' = r.index
           /\ last' = Call("index_document", r.ret, index, 0, vector, 0, up, <<>>)
           /\ UNCHANGED <<backend, vector_dimension, auto_create, batchVars, unitVars, ingestVars>>

Search ==
    \E q \in Vectors, k \in 1..MaxTopK, up \in BOOLEAN :
        LET r == CASE backend = "elasticsearch" ->
                        [ret |-> ESSearch(index, q, k, up), index |-> index]
                   [] backend = "opensearch" ->
                        OSSearch(index, vector_dimension, q, k, up)
                   [] OTHER -> [ret |-> LegacySearch(index, q, k, up), index |-> index]
            answered == up /\ StoreSearch(r.index, q, k).ok
        IN /\ index' = r.index
           /\ last' = Call("search", TRUE, index, 0, q, k, answered,
                        HitIds(r.ret, backend = "elasticsearch_legacy"))
                        @@ [up |-> up]
           /\ UNCHANGED <<backend, vector_dimension, auto_create, batchVars, unitVars, ingestVars>>

\* the store's periodic refresh makes pending writes searchable
Refresh ==
    /\ index.exists
    /\ index.visible # index.docs
    /\ index' = [index EXCEPT !.visible = index.docs]
    /\ last' = Call("refresh", TRUE, index, 0, <<>>, 0, TRUE, <<>>)
    /\ UNCHANGED <<backend, vector_dimension, auto_create, batchVars, unitVars, ingestVars>>

\* the terms aggregation on document_name with the max of page_number, over
\* the searchable documents; the store refuses it when there is no index or
\* when the index was created by a write, which maps document_name as text
StoreAggregate(idx) ==
    IF ~idx.exists \/ idx.dims = Dynamic
    THEN [ok |-> FALSE, buckets |-> {}]
    ELSE LET at(n) == {i \in 1..Len(idx.visible) : idx.visible[i].document_name = n}
             max_page(n) == CHOOSE p \in {idx.visible[i].page_number : i \in at(n)} :
                               \A i \in at(n) : idx.visible[i].page_number <= p
         IN [ok |-> TRUE,
             buckets |-> {[key |-> n, doc_count |-> Cardinality(at(n)),
                           max_page |-> max_page(n)] :
                          n \in {idx.visible[i].document_name : i \in 1..Len(idx.visible)}}]

\* list_documents of the three services; the list is kept as a set
ESListDocuments(idx, up) ==
    LET r == StoreAggregate(idx)
    IN IF ~up \/ ~r.ok THEN {}
       ELSE {[document_name |-> b.key, total_pages |-> b.max_page] : b \in r.buckets}

OSListDocuments(idx, dim, up) ==
    LET e == OSEnsureIndex(idx, dim, up)
        r == StoreAggregate(e.index)
    IN IF ~e.ok \/ ~r.ok THEN [ret |-> {}, index |-> e.index]
       ELSE [ret |-> {[name |-> b.key, chunks |-> b.doc_count,
                       max_page |-> IF b.max_page = 0 THEN 1 ELSE b.max_page] :
                      b \in r.buckets},
             index |-> e.index]

LegacyListDocuments(idx, up) ==
    LET r == StoreAggregate(idx)
    IN IF ~up \/ ~r.ok THEN {}
       ELSE {[name |-> b.key, chunks |-> b.doc_count,
              max_page |-> IF b.max_page = 0 THEN 1 ELSE b.max_page] : b \in r.buckets}

ListDocuments ==
    \E up \in BOOLEAN :
        LET r == CASE backend = "elasticsearch" ->
                        [ret |-> ESListDocuments(index, up), index |-> index]
                   [] backend = "opensearch" ->
                        OSListDocuments(index, vector_dimension, up)
                   [] OTHER -> [ret |-> LegacyListDocuments(index, up), index |-> index]
        IN /\ index' = r.index
           /\ last' = Call("list_documents", TRUE, index, 0, <<>>, 0, up, <<>>)
                        @@ [up |-> up, listed |-> r.ret]
           /\ UNCHANGED <<backend, vector_dimension, auto_create, batchVars, unitVars, ingestVars>>

Next ==
    \/ CreateIndex
    \/ DeleteIndex
    \/ IndexDocument
    \/ Search
    \/ ListDocuments
    \/ Refresh

Spec == Init /\ [][Next]_vars

\* C1 as stated: index_document with a vector whose length differs from the
\* configured dimension fails with InvalidVectorError and leaves the index
\* unchanged, whichever backend is configured.
C1_FailsWithInvalidVectorError ==
    (last.op = "index_document" /\ last.veclen # vector_dimension) =>
        /\ last.raised = "InvalidVectorError"
        /\ index = last.pre

\* C5: create_index on an index that exists with the requested dimension is
\* a no-op: the index and its chunks stay as they were, and the call reports
\* success whenever the store answered.
C5_CreateIndexIdempotent ==
    (last.op = "create_index" /\ last.pre.exists /\ last.pre.dims = last.dims) =>
        /\ index = last.pre
        /\ last.answered => last.ok

C5_Witness ==
    /\ last.op = "create_index"
    /\ last.pre.exists
    /\ last.pre.dims = last.dims
    /\ last.ok
    /\ Len(index.docs) >= 1

\* C6: create_index on an index that exists with another dimension than the
\* requested one fails with DimensionMismatchError and leaves the index
\* unchanged.
C6_DimensionMismatchFails ==
    (last.op = "create_index" /\ last.answered
        /\ last.pre.exists /\ last.pre.dims # last.dims) =>
        /\ ~last.ok
        /\ last.raised = "DimensionMismatchError"
        /\ index = last.pre

\* C7: a chunk whose index_document returned success is among the hits of
\* every later search on that index that asks for at least as many hits as
\* the index holds chunks.
C7_WriteVisibleToSearch ==
    (last.op = "search" /\ last.answered /\ last.k >= Len(index.docs)) =>
        \A i \in 1..Len(index.docs) :
            \E j \in 1..Len(last.hits) : last.hits[j] = index.docs[i].id

(***************************************************************************)
(* batch_files (src/aws_microservices/sharepoint_file_list/app.py).        *)
(***************************************************************************)
\* token counts num_tokens_from_string gives for the rendered files
TokenCounts == {10, 40, 150}
\* values of max_tokens_per_batch
Budgets == {50, 100}

StoreIdle ==
    /\ backend = "elasticsearch"
    /\ vector_dimension = 1
    /\ auto_create = FALSE
    /\ index = NoIndex
    /\ last = NoCall

\* num_tokens_from_string(file_str, model) of one entry of files_data
FileTokens(file_data) == file_data.tokens

RECURSIVE SumTokens(_)
SumTokens(batch) ==
    IF batch = <<>> THEN 0
    ELSE FileTokens(Head(batch)) + SumTokens(Tail(batch))

RECURSIVE Concat(_)
Concat(bs) == IF bs = <<>> THEN <<>> ELSE Head(bs) \o Concat(Tail(bs))

\* mutant: closes the batch already when the budget is reached exactly
ClosesBatchAtBudget(cur_tokens, file_tokens, budget, cur_batch) ==
    cur_tokens + file_tokens >= budget /\ cur_batch # <<>>

\* mutant: never closes a batch inside the loop
ClosesBatchNever(cur_tokens, file_tokens, budget, cur_batch) == FALSE

\* the test that closes the open batch before the file is added
ClosesBatch(cur_tokens, file_tokens, budget, cur_batch) ==
    cur_tokens + file_tokens > budget /\ cur_batch # <<>>

BatchInit ==
    /\ \E n \in 0..MaxFiles : \E toks \in [1..n -> TokenCounts] :
          files_data = [i \in 1..n |-> [name |-> i, tokens |-> toks[i]]]
    /\ max_tokens \in Budgets
    /\ bpos = 1
    /\ batches = <<>>
    /\ current_batch = <<>>
    /\ current_tokens = 0
    /\ bpc = "loop"
    /\ StoreIdle
    /\ UnitIdle
    /\ IngestIdle

\* one iteration of the for loop
BatchLoop ==
    /\ bpc = "loop"
    /\ bpos <= Len(files_data)
    /\ LET file_data == files_data[bpos]
           file_tokens == FileTokens(file_data)
           closes == ClosesBatch(current_tokens, file_tokens, max_tokens, current_batch)
       IN /\ batches' = IF closes THEN Append(batches, current_batch) ELSE batches
          /\ current_batch' = IF closes THEN <<file_data>> ELSE Append(current_batch, file_data)
          /\ current_tokens' = IF closes THEN file_tokens ELSE current_tokens + file_tokens
    /\ bpos' = bpos + 1
    /\ UNCHANGED <<files_data, max_tokens, bpc, storeVars, ingestVars, unitVars>>

\* mutant: returns without the open batch
BatchReturnDropsOpenBatch ==
    /\ bpc = "loop"
    /\ bpos > Len(files_data)
    /\ bpc' = "done"
    /\ UNCHANGED <<batches, files_data, max_tokens, bpos, current_batch, current_tokens, storeVars, ingestVars, unitVars>>

\* after the loop: the open batch, if any, is the last batch
BatchReturn ==
    /\ bpc = "loop"
    /\ bpos > Len(files_data)
    /\ batches' = IF current_batch # <<>> THEN Append(batches, current_batch) ELSE batches
    /\ bpc' = "done"
    /\ UNCHANGED <<files_data, max_tokens, bpos, current_batch, current_tokens, storeVars, ingestVars, unitVars>>

BatchNext ==
    \/ BatchLoop
    \/ BatchReturn

SpecBatch == BatchInit /\ [][BatchNext]_vars

Tokens(batch) == [i \in 1..Len(batch) |-> FileTokens(batch[i])]

\* C2: once batch_files has returned, the batches concatenated in order are
\* the input list itself: nothing dropped, duplicated, split or reordered.
C2_ConcatenationIsInput ==
    bpc = "done" => Concat(batches) = files_data

C2_Witness ==
    /\ bpc = "done"
    /\ Len(batches) >= 3
    /\ Len(files_data) > Len(batches)
    /\ Concat(batches) = files_data

\* C3: every returned batch stays within max_tokens_per_batch unless it
\* is a single file whose own token count exceeds the budget.
C3_BatchWithinBudget ==
    bpc = "done" =>
        \A i \in 1..Len(batches) :
            \/ SumTokens(batches[i]) <= max_tokens
            \/ (Len(batches[i]) = 1 /\ FileTokens(batches[i][1]) > max_tokens)

C3_Witness ==
    /\ bpc = "done"
    /\ \E i \in 1..Len(batches) :
          Len(batches[i]) = 1 /\ SumTokens(batches[i]) > max_tokens
    /\ \E i \in 1..Len(batches) :
          Len(batches[i]) >= 2 /\ SumTokens(batches[i]) = max_tokens

\* C4: batching is greedy: no batch is empty, a batch is closed only when the
\* first file of the next batch would have exceeded the budget, and token
\* counts [40,40,40,150,10] under budget 100 give [[40,40],[40],[150],[10]].
C4_Greedy ==
    bpc = "done" =>
        /\ \A i \in 1..Len(batches) : batches[i] # <<>>
        /\ \A i \in 1..(Len(batches) - 1) :
              SumTokens(batches[i]) + FileTokens(batches[i + 1][1]) > max_tokens
        /\ (Tokens(files_data) = <<40, 40, 40, 150, 10>> /\ max_tokens = 100) =>
              [i \in 1..Len(batches) |-> Tokens(batches[i])]
                  = << <<40, 40>>, <<40>>, <<150>>, <<10>> >>

C4_Witness ==
    /\ bpc = "done"
    /\ Tokens(files_data) = <<40, 40, 40, 150, 10>>
    /\ max_tokens = 100
    /\ Len(batches) = 4

(***************************************************************************)
(* DocumentProcessor: ingestion of a documents directory                   *)
(* (src/app/services/document_processor.py, src/document_processor.py,     *)
(* src/app/api/routes/documents.py).                                       *)
(***************************************************************************)
\* longest directory listing os.walk yields
MaxWalk == 2

\* "<FF>" is the form feed
BlankTokens == {" ", "<FF>"}
TemplateTokens == {"[name]"}
\* what extract_page_from_text returns when no pattern matches
NoPage == -1

\* the number a page marker token carries
PageOfToken(tok) ==
    CASE tok = "Page 0" -> 0
      [] tok = "Page 1" -> 1
      [] tok = "Page 2" -> 2
      [] OTHER -> NoPage

\* not text.strip()
IsBlank(text) == \A i \in 1..Len(text) : text[i] \in BlankTokens

IsTemplateText(text) ==
    \/ IsBlank(text)
    \/ \E i \in 1..Len(text) : text[i] \in TemplateTokens

RECURSIVE FirstMarker(_, _)
FirstMarker(text, i) ==
    IF i > Len(text) THEN NoPage
    ELSE IF PageOfToken(text[i]) # NoPage THEN PageOfToken(text[i])
    ELSE FirstMarker(text, i + 1)

ExtractPageFromText(text) == FirstMarker(text, 1)

\* mutant: the number of the marker is taken whatever it is
PageNumOfMarkerOr(text, fallback) ==
    LET p == ExtractPageFromText(text)
    IN IF p = NoPage THEN fallback ELSE p

\* extract_page_from_text(text) or fallback: None and 0 are both falsy
PageNumOr(text, fallback) ==
    LET p == ExtractPageFromText(text)
    IN IF p = NoPage \/ p = 0 THEN fallback ELSE p

\* get_embedding(text).tolist(): one vector of the model's output size
Embedding(text, mdim) == [j \in 1..mdim |-> 1]

(***************************************************************************)
(* DocumentProcessor.get_chunks_with_pages (the same code in               *)
(* src/document_processor.py and src/app/services/document_processor.py).  *)
(* A text is a sequence of items: a page break, or a window as             *)
(* text_splitter.split_text cuts it.                                       *)
(***************************************************************************)
\* longest document text, in items
MaxItems == 4
\* words_per_page, in windows (stand-in for 500 words)
WordsPerPage == 2
\* len(chunk.strip()) >= 50
MinChunkChars == 50

PageBreak == <<"<FF>">>
UpperTokens == {"HISTORY"}

\* what split_text can hand out: a long window, long windows with a page
\* marker in their own text, a short one, a template one, a blank one and a
\* section header
Windows ==
    {<<"narrative">>, <<"Page 0", "narrative">>, <<"Page 2", "narrative">>,
     <<"angina">>, <<"[name]", "narrative">>, <<" ">>, <<"HISTORY">>}

Texts == SeqsUpTo(Windows \cup {PageBreak}, MaxItems)

\* the characters of a token: "narrative" stands for a passage of 50
TokenChars(tok) ==
    CASE tok \in BlankTokens -> 0
      [] tok = "narrative" -> 50
      [] OTHER -> 6

\* len(chunk.strip())
RECURSIVE StrippedLen(_)
StrippedLen(text) ==
    IF text = <<>> THEN 0 ELSE TokenChars(Head(text)) + StrippedLen(Tail(text))

\* chunk.isupper() or re.match(r'^[A-Z][a-z]+:', chunk)
IsSectionHeader(text) ==
    /\ text # <<>>
    /\ \A i \in 1..Len(text) : text[i] \in UpperTokens \cup BlankTokens
    /\ \E i \in 1..Len(text) : text[i] \in UpperTokens

\* the text as one string
RECURSIVE FullText(_)
FullText(items) == IF items = <<>> THEN <<>> ELSE Head(items) \o FullText(Tail(items))

\* re.split over the page break patterns
RECURSIVE TextParts(_, _, _)
TextParts(items, i, part) ==
    IF i > Len(items) THEN <<part>>
    ELSE IF items[i] = PageBreak THEN <<part>> \o TextParts(items, i + 1, <<>>)
    ELSE TextParts(items, i + 1, Append(part, items[i]))

\* mutant: the pages are numbered over the parts that are kept
RECURSIVE PagesOfPartsKept(_, _)
PagesOfPartsKept(parts, i) ==
    IF i > Len(parts) THEN <<>>
    ELSE (IF IsBlank(FullText(parts[i])) THEN <<>>
          ELSE <<[windows |-> parts[i],
                  page |-> Cardinality({j \in 1..i : ~IsBlank(FullText(parts[j]))})]>>)
         \o PagesOfPartsKept(parts, i + 1)

\* page breaks found: part i is page i + 1 (i from 0), blank parts left out
RECURSIVE PagesOfParts(_, _)
PagesOfParts(parts, i) ==
    IF i > Len(parts) THEN <<>>
    ELSE (IF IsBlank(FullText(parts[i])) THEN <<>>
          ELSE <<[windows |-> parts[i], page |-> i]>>) \o PagesOfParts(parts, i + 1)

\* no page break found: text.split() cut every words_per_page words
RECURSIVE PagesOfWords(_, _)
PagesOfWords(words, page) ==
    IF words = <<>> THEN <<>>
    ELSE IF Len(words) <= WordsPerPage THEN <<[windows |-> words, page |-> page]>>
    ELSE <<[windows |-> SubSeq(words, 1, WordsPerPage), page |-> page]>>
         \o PagesOfWords(SubSeq(words, WordsPerPage + 1, Len(words)), page + 1)

NotBlank(text) == ~IsBlank(text)

PageChunksOf(items) ==
    LET text_parts == TextParts(items, 1, <<>>)
    IN IF Len(text_parts) > 1 THEN PagesOfParts(text_parts, 1)
       ELSE PagesOfWords(SelectSeq(items, NotBlank), 1)

\* the windows of all page chunks in order, each with the page of its chunk
RECURSIVE WindowsOfPages(_)
WindowsOfPages(page_chunks) ==
    IF page_chunks = <<>> THEN <<>>
    ELSE [i \in 1..Len(Head(page_chunks).windows) |->
             [chunk |-> Head(page_chunks).windows[i], page_number |-> Head(page_chunks).page]]
         \o WindowsOfPages(Tail(page_chunks))

\* section_context[-3:]
LastThree(context) ==
    IF Len(context) <= 3 THEN context ELSE SubSeq(context, Len(context) - 2, Len(context))

\* the loop over the windows: blank and template windows are passed over, a
\* header opens a section, any other window joins the section context and
\* is emitted when it is long enough
RECURSIVE ProcessWindows(_, _, _, _, _)
ProcessWindows(ws, i, current_section, section_context, out) ==
    IF i > Len(ws) THEN out
    ELSE LET chunk == ws[i].chunk
             context == Append(section_context, chunk)
         IN IF IsBlank(chunk) \/ IsTemplateText(chunk)
            THEN ProcessWindows(ws, i + 1, current_section, section_context, out)
            ELSE IF IsSectionHeader(chunk)
            THEN ProcessWindows(ws, i + 1, chunk, <<chunk>>, out)
            ELSE IF StrippedLen(chunk) >= MinChunkChars
            THEN ProcessWindows(ws, i + 1, current_section, context,
                    Append(out, [text |-> chunk,
                                 page_number |-> PageNumOr(chunk, ws[i].page_number),
                                 section |-> current_section,
                                 context |-> LastThree(context)]))
            ELSE ProcessWindows(ws, i + 1, current_section, context, out)

\* mutant: no fallback chunk
get_chunks_without_fallback(text) ==
    ProcessWindows(WindowsOfPages(PageChunksOf(text)), 1, <<"main">>, <<>>, <<>>)

get_chunks_with_pages(text) ==
    LET processed == ProcessWindows(WindowsOfPages(PageChunksOf(text)), 1,
                                    <<"main">>, <<>>, <<>>)
    IN IF processed = <<>> /\ ~IsBlank(FullText(text))
       THEN <<[text |-> FullText(text), page_number |-> 1, section |-> <<"main">>,
               context |-> <<FullText(text)>>]>>
       ELSE processed

\* the files the documents directory may hold
Files ==
    {[path |-> "/docs/a.docx", name |-> "a.docx", docx |-> TRUE,
      pages |-> << <<"chest", "pain">> >>],
     [path |-> "/docs/sub/a.docx", name |-> "a.docx", docx |-> TRUE,
      pages |-> << <<"angina">> >>],
     [path |-> "/docs/b.docx", name |-> "b.docx", docx |-> TRUE,
      pages |-> << <<"chest", "pain">>, <<"Page 1", "angina">> >>],
     [path |-> "/docs/c.docx", name |-> "c.docx", docx |-> TRUE,
      pages |-> << <<" ">>, <<"[name]", "angina">> >>],
     [path |-> "/docs/d.docx", name |-> "d.docx", docx |-> TRUE,
      pages |-> << <<"Page 0", "narrative">>, <<"narrative">> >>],
     [path |-> "/docs/notes.txt", name |-> "notes.txt", docx |-> FALSE,
      pages |-> << <<"angina">> >>]}

Walks ==
    {w \in SeqsUpTo(Files, MaxWalk) :
        \A i, j \in 1..Len(w) : i # j => w[i].path # w[j].path}

\* what Docx2txtLoader does with the file
Loads == {"ok", "missing", "error"}
\* what happens to one page: the encoder raises, the store is down, or neither
PageOutcomes == {"ok", "embed_error", "store_down"}

Config == [backend |-> backend, vector_dimension |-> vector_dimension,
           model_dim |-> model_dim, auto_create |-> auto_create]

\* self.vector_db.index_document(document_id=..., document_name=..., ...):
\* OpenSearchService.index_document(index_name, document) takes none of
\* these keywords, the call raises TypeError
AppIndexDocument(cfg, idx, doc, up) ==
    IF cfg.backend = "elasticsearch"
    THEN ESIndexDocument(idx, cfg.vector_dimension, doc, up, cfg.auto_create)
    ELSE [ret |-> FALSE, index |-> idx]

\* the loop over the pages of process_document
RECURSIVE AppProcessPages(_, _, _, _, _, _)
AppProcessPages(cfg, idx, file, i, out, pages_processed) ==
    IF i > Len(file.pages) THEN [index |-> idx, pages_processed |-> pages_processed]
    ELSE LET text == file.pages[i]
             page_num == PageNumOr(text, i)
             doc == [id |-> DocId(file.name, page_num), document_name |-> file.name,
                     page_number |-> page_num, chunk_index |-> NoField,
                     content |-> text, vector |-> Embedding(text, cfg.model_dim)]
             r == AppIndexDocument(cfg, idx, doc, out[i] # "store_down")
         IN IF IsBlank(text) \/ IsTemplateText(text) \/ out[i] = "embed_error"
            THEN AppProcessPages(cfg, idx, file, i + 1, out, pages_processed)
            ELSE AppProcessPages(cfg, r.index, file, i + 1, out,
                                 IF r.ret THEN pages_processed + 1 ELSE pages_processed)

\* DocumentProcessor.process_document of the app: result <<>> stands for None
AppProcessDocument(cfg, idx, file, load, out) ==
    IF load # "ok" \/ file.pages = <<>>
    THEN [ok |-> FALSE, result |-> <<>>, index |-> idx]
    ELSE LET r == AppProcessPages(cfg, idx, file, 1, out, 0)
         IN IF r.pages_processed > 0
            THEN [ok |-> TRUE,
                  result |-> <<[filename |-> file.name, path |-> file.path,
                                pages_processed |-> r.pages_processed]>>,
                  index |-> r.index]
            ELSE [ok |-> FALSE, result |-> <<>>, index |-> r.index]

\* the loop over the chunks of the legacy process_document: an encoder error
\* leaves the loop, the bool of index_document is not looked at
RECURSIVE LegacyProcessChunks(_, _, _, _, _, _)
LegacyProcessChunks(cfg, idx, file, chunks, i, out) ==
    IF i > Len(chunks) THEN [ok |-> TRUE, index |-> idx]
    ELSE IF out[i] = "embed_error" THEN [ok |-> FALSE, index |-> idx]
    ELSE LET doc == [id |-> AutoId(Len(idx.docs) + 1), document_name |-> file.name,
                     page_number |-> chunks[i].page_number, chunk_index |-> i - 1,
                     content |-> chunks[i].text,
                     vector |-> Embedding(chunks[i].text, cfg.model_dim)]
             r == LegacyIndexDocument(idx, doc, out[i] # "store_down", cfg.auto_create)
         IN LegacyProcessChunks(cfg, r.index, file, chunks, i + 1, out)

\* DocumentProcessor.process_document of the root module, which chunks the
\* text of documents[0] with get_chunks_with_pages; Docx2txtLoader puts the
\* whole text of the file, all its windows, into that one element: ok = FALSE stands
\* for the exception it re-raises
LegacyProcessDocument(cfg, idx, file, load, out) ==
    IF load # "ok" THEN [ok |-> FALSE, result |-> <<>>, index |-> idx]
    ELSE IF file.pages = <<>> THEN [ok |-> TRUE, result |-> <<file.path>>, index |-> idx]
    ELSE LET text == file.pages
             r == LegacyProcessChunks(cfg, idx, file, get_chunks_with_pages(text), 1, out)
         IN [ok |-> r.ok, result |-> IF r.ok THEN <<file.path>> ELSE <<>>, index |-> r.index]

\* the file the loop of process_all_documents takes up after this one
NextFile(ok, pos, n) == pos + 1

IngestInit ==
    /\ \E pb \in {<<"app", "elasticsearch">>, <<"app", "opensearch">>,
                   <<"legacy", "elasticsearch_legacy">>} :
          /\ processor = pb[1]
          /\ backend = pb[2]
    /\ vector_dimension \in Dims
    /\ model_dim \in Dims
    /\ auto_create \in BOOLEAN
    /\ \E pre \in {NoIndex} \cup {NewIndex(d) : d \in Dims} :
          index = IF backend = "opensearch"
                  THEN OSEnsureIndex(pre, vector_dimension, TRUE).index
                  ELSE pre
    /\ last = NoCall
    /\ dir_exists \in BOOLEAN
    /\ walk \in IF dir_exists THEN Walks ELSE {<<>>}
    /\ ipc = "idle"
    /\ ipos = 1
    /\ processed_files = <<>>
    /\ visited = <<>>
    /\ response = NoResponse
    /\ BatchIdle
    /\ UnitIdle

\* the route finds no documents directory; in the app its HTTPException(404)
\* is caught by the route's own "except Exception" and becomes a 500
ProcessNoDirectory ==
    /\ ipc = "idle"
    /\ ~dir_exists
    /\ ipc' = "nodir"
    /\ response' = [code |-> IF processor = "app" THEN 500 ELSE 404,
                    status |-> "error", files |-> <<>>]
    /\ UNCHANGED <<storeVars, batchVars, unitVars, processor, model_dim, dir_exists, walk, ipos,
                   processed_files, visited>>

\* DocumentProcessor.create_index, first half: self.vector_db.delete_index.
\* The app calls it without index_name, a TypeError on OpenSearchService.
ProcessDeleteIndex ==
    /\ ipc = "idle"
    /\ dir_exists
    /\ \E up \in BOOLEAN :
        IF processor = "app" /\ backend = "opensearch"
        THEN /\ ipc' = "raised"
             /\ response' = [code |-> 500, status |-> "error", files |-> <<>>]
             /\ last' = [Call("delete_index", FALSE, index, 0, <<>>, 0, FALSE, <<>>)
                            EXCEPT !.raised = "TypeError"]
             /\ UNCHANGED index
        ELSE LET r == IF processor = "app" THEN ESDeleteIndex(index, up)
                      ELSE LegacyDeleteIndex(index, up)
             IN /\ index' = r.index
                /\ last' = Call("delete_index", r.ret, index, 0, <<>>, 0, up, <<>>)
                /\ ipc' = "deleted"
                /\ UNCHANGED response
    /\ UNCHANGED <<backend, vector_dimension, auto_create, batchVars, unitVars, processor, model_dim,
                   dir_exists, walk, ipos, processed_files, visited>>

\* DocumentProcessor.create_index, second half: the app raises when
\* create_index returns False, the root module does not look at the bool
ProcessCreateIndex ==
    /\ ipc = "deleted"
    /\ \E up \in BOOLEAN :
        LET dims == IF processor = "app" THEN vector_dimension ELSE model_dim
            r == IF processor = "app" THEN ESCreateIndex(index, dims, up)
                 ELSE LegacyCreateIndex(index, dims, up)
        IN /\ index' = r.index
           /\ last' = Call("create_index", r.ret, index, dims, <<>>, 0, up, <<>>)
           /\ IF processor = "app" /\ ~r.ret
              THEN /\ ipc' = "raised"
                   /\ response' = [code |-> 500, status |-> "error", files |-> <<>>]
              ELSE /\ ipc' = "loop"
                   /\ UNCHANGED response
    /\ UNCHANGED <<backend, vector_dimension, auto_create, batchVars, unitVars, processor, model_dim,
                   dir_exists, walk, ipos, processed_files, visited>>

\* one file of the walk: a file that is no .docx is passed over, a .docx is
\* handed to process_document and appended when that succeeded
ProcessFile ==
    /\ ipc = "loop"
    /\ ipos <= Len(walk)
    /\ LET file == walk[ipos]
       IN IF ~file.docx
          THEN /\ ipos' = ipos + 1
               /\ UNCHANGED <<index, last, processed_files, visited>>
          ELSE \E load \in Loads, out \in [1..Len(file.pages) -> PageOutcomes] :
                 LET r == IF processor = "app"
                          THEN AppProcessDocument(Config, index, file, load, out)
                          ELSE LegacyProcessDocument(Config, index, file, load, out)
                 IN /\ Len(r.index.docs) <= MaxDocs
                    /\ index' = r.index
                    /\ last' = Call("process_document", r.ok, index, 0, <<>>, 0, TRUE, <<>>)
                    /\ processed_files' = processed_files \o r.result
                    /\ visited' = Append(visited, [pos |-> ipos, ok |-> r.ok, result |-> r.result])
                    /\ ipos' = NextFile(r.ok, ipos, Len(walk))
    /\ UNCHANGED <<backend, vector_dimension, auto_create, batchVars, unitVars, processor, model_dim,
                   dir_exists, walk, ipc, response>>

\* process_all_documents returns its list and the route answers with it
ProcessReturn ==
    /\ ipc = "loop"
    /\ ipos > Len(walk)
    /\ ipc' = "done"
    /\ response' = [code |-> 200,
                    status |-> IF Len(processed_files) > 0 THEN "success" ELSE "warning",
                    files |-> processed_files]
    /\ UNCHANGED <<storeVars, batchVars, unitVars, processor, model_dim, dir_exists, walk, ipos,
                   processed_files, visited>>

IngestNext ==
    \/ ProcessNoDirectory
    \/ ProcessDeleteIndex
    \/ ProcessCreateIndex
    \/ ProcessFile
    \/ ProcessReturn

SpecIngest == IngestInit /\ [][IngestNext]_vars

\* positions of the .docx files of the walk, in order
RECURSIVE DocxPositions(_, _)
DocxPositions(w, i) ==
    IF i > Len(w) THEN <<>>
    ELSE (IF w[i].docx THEN <<i>> ELSE <<>>) \o DocxPositions(w, i + 1)

RECURSIVE ResultsOf(_)
ResultsOf(vs) == IF vs = <<>> THEN <<>> ELSE Head(vs).result \o ResultsOf(Tail(vs))

\* C9: a document that fails does not end the run: process_all_documents
\* hands every .docx file of the walk to process_document and returns, without
\* raising, the results of exactly those that succeeded, in processing order;
\* the one failure that ends the run is that the index store could not be
\* reached when the index was re-created.
C9_FailedDocumentDoesNotAbort ==
    /\ ipc = "raised" =>
          /\ last.op \in {"delete_index", "create_index"}
          /\ last.raised = Returned
          /\ ~last.answered
    /\ ipc = "done" =>
          /\ [i \in 1..Len(visited) |-> visited[i].pos] = DocxPositions(walk, 1)
          /\ \A i \in 1..Len(visited) : visited[i].ok <=> visited[i].result # <<>>
          /\ processed_files = ResultsOf(visited)
          /\ response.code = 200
          /\ response.files = processed_files

\* C8: a chunk is immutable once indexed: whatever is called other than
\* delete_index, every chunk the index held before the call is still in it
\* with the same content and metadata.
C8_IndexedChunkImmutable ==
    last.op # "delete_index" =>
        \A i \in 1..Len(last.pre.docs) :
            \E j \in 1..Len(index.docs) : index.docs[j] = last.pre.docs[i]

(***************************************************************************)
(* The /search route of the app (src/app/api/routes/search.py).            *)
(***************************************************************************)
Queries == {<<"chest">>, <<"angina", "pain">>, <<"mi", "pain">>}

\* the words of at most two characters
ShortWords == {"mi"}

\* the text of an id: f"{document_name}_{page_num}" or the id the store made up
IdText(id) == IF id[1] = "_auto" THEN "auto" \o ToString(id[2]) ELSE id[1]

\* the name a hit is grouped under: its document_name, or what its
\* document_id starts with when the name is empty or "Unknown Document"
DocNameOf(result) ==
    IF result.document_name # "" /\ result.document_name # "Unknown Document"
    THEN result.document_name
    ELSE IF result.document_id # EmptyId THEN IdText(result.document_id)
    ELSE "Unknown Document"

\* extract_keywords_from_text: the query words of more than two characters
\* that are found in the content
RECURSIVE FoundKeywords(_, _, _)
FoundKeywords(content, query, i) ==
    IF i > Len(query) THEN <<>>
    ELSE (IF query[i] \notin ShortWords /\ \E j \in 1..Len(content) : content[j] = query[i]
          THEN <<query[i]>> ELSE <<>>) \o FoundKeywords(content, query, i + 1)

ChunkData(result, query) ==
    LET found == FoundKeywords(result.content, query, 1)
    IN [content |-> result.content, page_number |-> result.page_number,
        document_id |-> result.document_id, score |-> result.score,
        found_keywords |-> found,
        semantic |-> found = <<>>]

\* list.sort(key=score, reverse=True): stable insertion by descending score
RECURSIVE InsertByScore(_, _)
InsertByScore(sorted, c) ==
    IF sorted = <<>> THEN <<c>>
    ELSE IF Head(sorted).score >= c.score
    THEN <<Head(sorted)>> \o InsertByScore(Tail(sorted), c)
    ELSE <<c>> \o sorted

RECURSIVE SortByScore(_)
SortByScore(cs) ==
    IF cs = <<>> THEN <<>>
    ELSE InsertByScore(SortByScore(SubSeq(cs, 1, Len(cs) - 1)), cs[Len(cs)])

\* documents_dict[doc_name]["chunks"].append(chunk_data); the groups keep
\* the order in which their names first came up
RECURSIVE AddToGroup(_, _, _)
AddToGroup(groups, name, c) ==
    IF groups = <<>> THEN <<[document_name |-> name, chunks |-> <<c>>]>>
    ELSE IF Head(groups).document_name = name
    THEN <<[document_name |-> name, chunks |-> Append(Head(groups).chunks, c)]>>
         \o Tail(groups)
    ELSE <<Head(groups)>> \o AddToGroup(Tail(groups), name, c)

RECURSIVE GroupResults(_, _, _, _)
GroupResults(raw_results, query, i, groups) ==
    IF i > Len(raw_results) THEN groups
    ELSE GroupResults(raw_results, query, i + 1,
                      AddToGroup(groups, DocNameOf(raw_results[i]),
                                 ChunkData(raw_results[i], query)))

\* def transform_search_results_for_ui(self, raw_results, query)
transform_search_results_for_ui(self, raw_results, query) ==
    LET groups == GroupResults(raw_results, query, 1, <<>>)
    IN [g \in 1..Len(groups) |->
          [document_name |-> groups[g].document_name,
           chunks |-> SortByScore(groups[g].chunks)]]

\* a call of the module-level function with positional arguments: it takes
\* three, any other number is a TypeError
CallTransform(args) ==
    IF Len(args) # 3 THEN [raised |-> TRUE, value |-> <<>>]
    ELSE [raised |-> FALSE,
          value |-> transform_search_results_for_ui(args[1], args[2], args[3])]

\* processor.search(query_vector, top_k=...): vector_db.search by keyword
ProcessorSearch(cfg, idx, q, k, up) ==
    IF cfg.backend = "elasticsearch"
    THEN [ret |-> ESSearch(idx, q, k, up), index |-> idx]
    ELSE OSSearch(idx, cfg.vector_dimension, q, k, up)


(***************************************************************************)
(* The /search route of the root app (src/app.py) and                      *)
(* DocumentProcessor.search of src/document_processor.py.                  *)
(***************************************************************************)
StopWords == {"the"}

\* word_tokenize(query.lower()) without the stop words
RECURSIVE LegacyQueryWords(_, _)
LegacyQueryWords(query, i) ==
    IF i > Len(query) THEN <<>>
    ELSE (IF query[i] \in StopWords THEN <<>> ELSE <<query[i]>>)
         \o LegacyQueryWords(query, i + 1)

\* keyword.lower() in content.lower()
KeywordInContent(keyword, content) == \E j \in 1..Len(content) : content[j] = keyword

\* processor.search(query) of the route: top_k keeps its default
LegacyTopK == MaxTopK

\* the names of the documents of the results, in the order they come up
RECURSIVE LegacyDocNames(_, _, _)
LegacyDocNames(results, i, names) ==
    IF i > Len(results) THEN names
    ELSE LegacyDocNames(results, i + 1,
            IF \E n \in 1..Len(names) : names[n] = results[i].source.document_name
            THEN names ELSE Append(names, results[i].source.document_name))

\* document_results[doc_name]['keyword_matches'][keyword], cut to three
LegacyKeywordMatches(results, name, keyword) ==
    LET Matches(r) == /\ r.source.document_name = name
                      /\ KeywordInContent(keyword, r.source.content)
        ms == SelectSeq(results, Matches)
    IN [i \in 1..(IF Len(ms) > 3 THEN 3 ELSE Len(ms)) |->
          [content |-> ms[i].source.content, page_number |-> ms[i].source.page_number]]

LegacyDocumentResult(results, name, query_words) ==
    [document_name |-> name,
     keyword_matches |->
        [kw \in {w \in {query_words[i] : i \in 1..Len(query_words)} :
                    LegacyKeywordMatches(results, name, w) # <<>>}
            |-> LegacyKeywordMatches(results, name, kw)]]

\* the documents with their keyword matches; "Remove documents with no
\* matches" drops a document none of whose hits holds a query word
LegacyDocumentResults(results, query_words) ==
    LET names == LegacyDocNames(results, 1, <<>>)
        all == [n \in 1..Len(names) |-> LegacyDocumentResult(results, names[n], query_words)]
        HasMatches(d) == DOMAIN d.keyword_matches # {}
    IN SelectSeq(all, HasMatches)

\* what is read of a hit afterwards, whichever service returned it
RawView(hits, legacy) ==
    [i \in 1..Len(hits) |->
        IF legacy
        THEN [id |-> hits[i].id, document_name |-> hits[i].source.document_name,
              page_number |-> hits[i].source.page_number, content |-> hits[i].source.content]
        ELSE [id |-> hits[i].document_id, document_name |-> hits[i].document_name,
              page_number |-> hits[i].page_number, content |-> hits[i].content]]

\* POST /search of the root app: DocumentProcessor.search returns {} when
\* anything is raised, the route answers 200 with what it returned
LegacySearchRequest ==
    /\ ipc = "serving"
    /\ processor = "legacy"
    /\ \E query \in Queries, up \in BOOLEAN, embed_ok \in BOOLEAN :
        LET query_words == LegacyQueryWords(query, 1)
            q == Embedding(query_words, model_dim)
            results == IF embed_ok THEN LegacySearch(index, q, LegacyTopK, up) ELSE <<>>
        IN /\ last' = Call("retrieve", TRUE, index, 0, q, LegacyTopK,
                           embed_ok /\ up, HitIds(results, TRUE))
                      @@ [query |-> query, raw |-> RawView(results, TRUE)]
           /\ response' = [code |-> 200, status |-> "success",
                           files |-> LegacyDocumentResults(results, query_words)]
    /\ UNCHANGED <<backend, vector_dimension, auto_create, index, batchVars, unitVars, processor,
                   model_dim, dir_exists, walk, ipc, ipos, processed_files, visited>>

SearchInit ==
    /\ \E pb \in {<<"app", "elasticsearch">>, <<"app", "opensearch">>,
                   <<"legacy", "elasticsearch_legacy">>} :
          /\ processor = pb[1]
          /\ backend = pb[2]
    /\ vector_dimension \in Dims
    /\ auto_create \in BOOLEAN
    /\ \E pre \in {NoIndex} \cup {NewIndex(d) : d \in Dims} :
          index = IF backend = "opensearch"
                  THEN OSEnsureIndex(pre, vector_dimension, TRUE).index
                  ELSE pre
    /\ last = NoCall
    /\ model_dim \in Dims
    /\ dir_exists = FALSE
    /\ walk = <<>>
    /\ ipc = "serving"
    /\ ipos = 1
    /\ processed_files = <<>>
    /\ visited = <<>>
    /\ response = NoResponse
    /\ BatchIdle
    /\ UnitIdle

\* POST /search: embed the query, search, hand the hits to
\* transform_search_results_for_ui(raw_results, query.query); whatever is
\* raised on the way becomes HTTP 500
SearchRequest ==
    /\ ipc = "serving"
    /\ processor = "app"
    /\ \E query \in Queries, k \in 1..MaxTopK, up \in BOOLEAN, embed_ok \in BOOLEAN :
        LET q == Embedding(query, model_dim)
            r == IF embed_ok THEN ProcessorSearch(Config, index, q, k, up)
                 ELSE [ret |-> <<>>, index |-> index]
            t == CallTransform(<<r.ret, query>>)
        IN /\ index' = r.index
           /\ last' = Call("retrieve", embed_ok /\ ~t.raised, index, 0, q, k,
                        embed_ok /\ up, HitIds(r.ret, FALSE))
                      @@ [query |-> query, raw |-> RawView(r.ret, FALSE)]
           /\ response' = IF embed_ok /\ ~t.raised
                          THEN [code |-> 200, status |-> "success", files |-> t.value]
                          ELSE [code |-> 500, status |-> "error", files |-> <<>>]
    /\ UNCHANGED <<backend, vector_dimension, auto_create, batchVars, unitVars, processor, model_dim,
                   dir_exists, walk, ipc, ipos, processed_files, visited>>

SearchNext ==
    \/ IndexDocument
    \/ Refresh
    \/ SearchRequest
    \/ LegacySearchRequest

SpecSearch == SearchInit /\ [][SearchNext]_vars

RECURSIVE ChunkIds(_, _)
ChunkIds(groups, g) ==
    IF g > Len(groups) THEN <<>>
    ELSE [i \in 1..Len(groups[g].chunks) |-> groups[g].chunks[i].document_id]
         \o ChunkIds(groups, g + 1)

\* C10: a retrieve whose query was embedded is answered, not failed, with
\* the hits of the search grouped by document: no group is empty, the groups
\* hold exactly the hits (each once, at most top_k in all) and the chunks of
\* a group are in non-increasing score order.
C10_RetrievePartitionsHits ==
    (processor = "app" /\ last.op = "retrieve" /\ last.answered) =>
        /\ response.code = 200
        /\ \A g \in 1..Len(response.files) :
              /\ response.files[g].chunks # <<>>
              /\ \A i \in 1..Len(response.files[g].chunks) - 1 :
                    response.files[g].chunks[i].score
                        >= response.files[g].chunks[i + 1].score
        /\ \A g, h \in 1..Len(response.files) :
              g # h => response.files[g].document_name # response.files[h].document_name
        /\ Len(ChunkIds(response.files, 1)) = Len(last.hits)
        /\ Len(last.hits) <= last.k
        /\ \A i \in 1..Len(last.hits) :
              \E j \in 1..Len(last.hits) : ChunkIds(response.files, 1)[j] = last.hits[i]

\* the query terms that occur in a content
QueryTermsIn(query, content) ==
    {query[i] : i \in 1..Len(query)} \cap {content[j] : j \in 1..Len(content)}

\* C11: every hit of a retrieve is in the answer, flagged with exactly the
\* query terms that occur in its own content: lexical (found_keywords not
\* empty) when there is such a term, semantic-only otherwise.
C11_HitsFlaggedLexicalOrSemantic ==
    (last.op = "retrieve" /\ last.answered) =>
        /\ response.code = 200
        /\ \A i \in 1..Len(last.raw) :
              LET hit == last.raw[i]
                  terms == QueryTermsIn(last.query, hit.content)
              IN IF processor = "app"
                 THEN \E g \in 1..Len(response.files) :
                        \E c \in 1..Len(response.files[g].chunks) :
                          LET e == response.files[g].chunks[c]
                          IN /\ e.document_id = hit.id
                             /\ {e.found_keywords[n] : n \in 1..Len(e.found_keywords)} = terms
                             /\ e.semantic <=> terms = {}
                 ELSE \E g \in 1..Len(response.files) :
                        LET km == response.files[g].keyword_matches
                            under == {kw \in DOMAIN km :
                                        \E m \in 1..Len(km[kw]) :
                                            km[kw][m] = [content |-> hit.content,
                                                         page_number |-> hit.page_number]}
                        IN /\ response.files[g].document_name = hit.document_name
                           /\ under = terms

(***************************************************************************)
(* get_chunks_with_pages on its own, over every text of up to MaxItems     *)
(* items.                                                                  *)
(***************************************************************************)
ChunkInit ==
    /\ doc_text \in Texts
    /\ processed_chunks = <<>>
    /\ cpc = "ready"
    /\ EmbedIdle
    /\ ConnIdle
    /\ PairIdle
    /\ LateIdle
    /\ StoreIdle
    /\ BatchIdle
    /\ IngestIdle

GetChunksWithPages ==
    /\ cpc = "ready"
    /\ processed_chunks' = get_chunks_with_pages(doc_text)
    /\ cpc' = "done"
    /\ UNCHANGED <<storeVars, batchVars, ingestVars, doc_text, embedVars, connVars,
                   pairVars, lateVars>>

ChunkNext == GetChunksWithPages

SpecChunks == ChunkInit /\ [][ChunkNext]_vars

\* the windows of the text that pass every filter of the loop
PassingWindows(text) ==
    {i \in 1..Len(text) :
        /\ text[i] # PageBreak
        /\ ~IsBlank(text[i])
        /\ ~IsTemplateText(text[i])
        /\ ~IsSectionHeader(text[i])
        /\ StrippedLen(text[i]) >= MinChunkChars}

\* C12: when no window of the text passes the filters, the result is empty
\* for a blank text and otherwise the one fallback chunk with the full text,
\* page 1 and section "main"; the result is empty exactly for a blank text.
C12_FallbackChunk ==
    cpc = "done" =>
        /\ PassingWindows(doc_text) = {} =>
              IF IsBlank(FullText(doc_text)) THEN processed_chunks = <<>>
              ELSE /\ Len(processed_chunks) = 1
                   /\ processed_chunks[1].text = FullText(doc_text)
                   /\ processed_chunks[1].page_number = 1
                   /\ processed_chunks[1].section = <<"main">>
        /\ processed_chunks = <<>> <=> IsBlank(FullText(doc_text))

C12_Witness ==
    /\ cpc = "done"
    /\ PassingWindows(doc_text) = {}
    /\ Len(doc_text) >= 2
    /\ ~IsBlank(FullText(doc_text))
    /\ Len(processed_chunks) = 1

\* C13: no chunk that get_chunks_with_pages returns, windowed or fallback,
\* has a text that is_template_text matches.
C13_NoTemplateChunk ==
    cpc = "done" =>
        \A c \in 1..Len(processed_chunks) : ~IsTemplateText(processed_chunks[c].text)

\* a chunk whose page number is the one of the marker in its own text
PageFromMarker(text) == ExtractPageFromText(text) \notin {NoPage, 0}

\* the page part an item of the text lies in
PartOf(text, i) == 1 + Cardinality({j \in 1..i : text[j] = PageBreak})

RECURSIVE PartsOfWindows(_, _, _)
PartsOfWindows(text, i, keep) ==
    IF i > Len(text) THEN <<>>
    ELSE (IF i \in keep THEN <<PartOf(text, i)>> ELSE <<>>)
         \o PartsOfWindows(text, i + 1, keep)

RECURSIVE PagesOfChunks(_)
PagesOfChunks(cs) ==
    IF cs = <<>> THEN <<>>
    ELSE (IF PageFromMarker(Head(cs).text) THEN <<>> ELSE <<Head(cs).page_number>>)
         \o PagesOfChunks(Tail(cs))

\* C14: leaving aside the chunks whose page number comes from a marker in
\* their own text, the page numbers of the chunks are non-decreasing in
\* emission order, and when the text has page breaks a chunk cut from the
\* k-th page part has page k.
C14_PagesNonDecreasing ==
    cpc = "done" =>
        LET pages == PagesOfChunks(processed_chunks)
            kept == {i \in PassingWindows(doc_text) : ~PageFromMarker(doc_text[i])}
        IN /\ \A i \in 1..Len(pages) - 1 : pages[i] <= pages[i + 1]
           /\ (PassingWindows(doc_text) # {} /\ \E i \in 1..Len(doc_text) : doc_text[i] = PageBreak)
                 => pages = PartsOfWindows(doc_text, 1, kept)

\* a blank first part, and chunks on the second and the third part
C14_Witness ==
    /\ cpc = "done"
    /\ Len(doc_text) = 4
    /\ doc_text[1] = PageBreak
    /\ doc_text[3] = PageBreak
    /\ PagesOfChunks(processed_chunks) = <<2, 3>>

\* C15: every chunk get_chunks_with_pages returns and every page or chunk
\* process_document indexes has page_number >= 1, also when the marker in
\* its text carries the number 0.
C15_PageNumberAtLeastOne ==
    /\ \A c \in 1..Len(processed_chunks) : processed_chunks[c].page_number >= 1
    /\ \A d \in 1..Len(index.docs) : index.docs[d].page_number >= 1

\* a page whose marker says 0 has been indexed
C15_Witness ==
    /\ ipc = "done"
    /\ \E d \in 1..Len(index.docs) :
          /\ ExtractPageFromText(index.docs[d].content) = 0
          /\ index.docs[d].page_number = 1

(***************************************************************************)
(* get_embedding of both DocumentProcessor classes.  A text is a sequence  *)
(* of characters, each a blank or a letter.                                *)
(***************************************************************************)
MaxChars == 6
EmbedTexts == SeqsUpTo({" ", "x"}, MaxChars)
MaxLengths == {2, 5}

EmptyTextMessage == "Cannot generate embedding for empty text"
NoChunkMessage == "Failed to generate embeddings from text chunks"

\* not text.strip()
IsBlankText(text) == \A i \in 1..Len(text) : text[i] = " "

\* text.split(): the lengths of the maximal runs of letters
RECURSIVE SplitWords(_, _, _, _)
SplitWords(text, i, run, words) ==
    IF i > Len(text)
    THEN IF run > 0 THEN Append(words, run) ELSE words
    ELSE IF text[i] = " "
         THEN SplitWords(text, i + 1, 0, IF run > 0 THEN Append(words, run) ELSE words)
         ELSE SplitWords(text, i + 1, run + 1, words)

\* sum(len(w) + 1 for w in overlap_words)
RECURSIVE LengthOfWords(_)
LengthOfWords(ws) ==
    IF ws = <<>> THEN 0 ELSE ws[1] + 1 + LengthOfWords(Tail(ws))

\* current_chunk[-int(len(current_chunk) * 0.2):], where [-0:] is the whole list
OverlapWords(current_chunk) ==
    LET k == Len(current_chunk) \div 5
    IN IF k = 0 THEN current_chunk
       ELSE SubSeq(current_chunk, Len(current_chunk) - k + 1, Len(current_chunk))

\* the loop that splits a long text into sub-chunks, each a list of words;
\* current_length + word_length > max_length * 0.8 in integers
RECURSIVE SubChunks(_, _, _, _, _, _)
SubChunks(words, ml, i, chunks, current_chunk, current_length) ==
    IF i > Len(words)
    THEN IF current_chunk # <<>> THEN Append(chunks, current_chunk) ELSE chunks
    ELSE LET word_length == words[i] + 1
             closes == 5 * (current_length + word_length) > 4 * ml
             overlap_words == OverlapWords(current_chunk)
         IN SubChunks(words, ml, i + 1,
                      IF closes THEN Append(chunks, current_chunk) ELSE chunks,
                      Append(IF closes THEN overlap_words ELSE current_chunk, words[i]),
                      (IF closes THEN LengthOfWords(overlap_words) ELSE current_length)
                          + word_length)

\* the sub-chunks that are not blank: ' '.join of no word is the empty string
EmbeddableChunks(chunks) == SelectSeq(chunks, LAMBDA c : c # <<>>)

Raises(exception, message) ==
    [raised |-> exception, message |-> message, value |-> "none", parts |-> 0,
     chunks |-> <<>>, encoded |-> <<>>]

\* chunks are the sub-chunks the loop built, encoded those the model was run on
Returns(value, chunks, encoded) ==
    [raised |-> "none", message |-> "", value |-> value, parts |-> Len(encoded),
     chunks |-> chunks, encoded |-> encoded]

\* get_embedding of src/app/services/document_processor.py
AppGetEmbedding(text, ml) ==
    IF Len(text) > ml
    THEN LET chunks == SubChunks(SplitWords(text, 1, 0, <<>>), ml, 1, <<>>, <<>>, 0)
             chunk_embeddings == EmbeddableChunks(chunks)
         IN IF chunk_embeddings = <<>>
            THEN Raises("ValueError", NoChunkMessage)
            ELSE Returns("vector", chunks, chunk_embeddings)
    ELSE IF IsBlankText(text)
         THEN Raises("ValueError", EmptyTextMessage)
         ELSE Returns("vector", <<>>, <<SplitWords(text, 1, 0, <<>>)>>)

\* get_embedding of src/document_processor.py: no check of the text or of
\* the sub-chunks; np.mean of an empty list is nan, returned with a warning
LegacyGetEmbedding(text, ml) ==
    IF Len(text) > ml
    THEN LET chunks == SubChunks(SplitWords(text, 1, 0, <<>>), ml, 1, <<>>, <<>>, 0)
         IN IF chunks = <<>>
            THEN Returns("nan", <<>>, <<>>)
            ELSE Returns("vector", chunks, chunks)
    ELSE Returns("vector", <<>>, <<SplitWords(text, 1, 0, <<>>)>>)

EmbedInit ==
    /\ embed_text \in EmbedTexts
    /\ max_length \in MaxLengths
    /\ embedder \in {"app", "legacy"}
    /\ embedding = [raised |-> "none"]
    /\ epc = "ready"
    /\ ChunkIdle
    /\ ConnIdle
    /\ PairIdle
    /\ LateIdle
    /\ StoreIdle
    /\ BatchIdle
    /\ IngestIdle

GetEmbedding ==
    /\ epc = "ready"
    /\ embedding' = IF embedder = "app"
                    THEN AppGetEmbedding(embed_text, max_length)
                    ELSE LegacyGetEmbedding(embed_text, max_length)
    /\ epc' = "done"
    /\ UNCHANGED <<storeVars, batchVars, ingestVars, chunkVars, connVars, pairVars, lateVars,
                   embed_text, max_length, embedder>>

SpecEmbed == EmbedInit /\ [][GetEmbedding]_vars

\* C16: get_embedding fails with the empty-input error for every blank
\* text, whatever its length, and never returns a value for a blank text.
C16_BlankTextFailsAsEmptyInput ==
    (epc = "done" /\ IsBlankText(embed_text)) =>
        /\ embedding.raised # "none"
        /\ embedding.message = EmptyTextMessage

\* the search that just returned met a connection error or a timeout
BackendFailed == last.op = "search" /\ ~last.up

\* C17: a backend failure during search reaches the caller as an error,
\* which a successful search that found zero hits is not.
C17_BackendFailureSurfaced ==
    BackendFailed => last.raised # Returned

(***************************************************************************)
(* _connect of the three services, run by their constructors.              *)
(***************************************************************************)
MaxRetries == 4

\* what one attempt can meet: the client answers, the ping fails, or the
\* client raises
Outcomes == {"ok", "ping_false", "exception"}

ConnectInit ==
    /\ conn_backend \in Backends
    /\ max_retries \in 1..MaxRetries
    /\ retries = 0
    /\ attempt_log = <<>>
    /\ sleeps = 0
    /\ kpc = "loop"
    /\ conn_error = "none"
    /\ ChunkIdle
    /\ EmbedIdle
    /\ PairIdle
    /\ LateIdle
    /\ StoreIdle
    /\ BatchIdle
    /\ IngestIdle

\* ElasticsearchService._connect of the app, one pass of the while loop up
\* to the sleep: a ping that answers returns, everything else counts
ESConnectAttempt ==
    /\ conn_backend = "elasticsearch"
    /\ kpc = "loop"
    /\ retries < max_retries
    /\ \E outcome \in Outcomes :
          /\ attempt_log' = Append(attempt_log, outcome)
          /\ IF outcome = "ok"
             THEN /\ kpc' = "connected"
                  /\ retries' = retries
             ELSE /\ retries' = retries + 1
                  /\ kpc' = IF retries + 1 < max_retries THEN "sleep" ELSE "loop"
    /\ UNCHANGED <<storeVars, batchVars, ingestVars, chunkVars, embedVars, pairVars, lateVars,
                   conn_backend, max_retries, sleeps, conn_error>>

\* time.sleep(self.retry_interval)
ESConnectSleep ==
    /\ kpc = "sleep"
    /\ sleeps' = sleeps + 1
    /\ kpc' = "loop"
    /\ UNCHANGED <<storeVars, batchVars, ingestVars, chunkVars, embedVars, pairVars, lateVars,
                   conn_backend, max_retries, retries, attempt_log, conn_error>>

\* the raise after the loop
ESConnectRaise ==
    /\ conn_backend = "elasticsearch"
    /\ kpc = "loop"
    /\ retries >= max_retries
    /\ kpc' = "raised"
    /\ conn_error' = "ConnectionError"
    /\ UNCHANGED <<storeVars, batchVars, ingestVars, chunkVars, embedVars, pairVars, lateVars,
                   conn_backend, max_retries, retries, attempt_log, sleeps>>

\* OpenSearchService._connect: the client is built once, nothing is pinged,
\* and an exception is raised again as it came
OSConnect ==
    /\ conn_backend = "opensearch"
    /\ kpc = "loop"
    /\ \E outcome \in {"ok", "exception"} :
          /\ attempt_log' = Append(attempt_log, outcome)
          /\ kpc' = IF outcome = "ok" THEN "connected" ELSE "raised"
          /\ conn_error' = IF outcome = "ok" THEN "none" ELSE "Exception"
    /\ UNCHANGED <<storeVars, batchVars, ingestVars, chunkVars, embedVars, pairVars, lateVars,
                   conn_backend, max_retries, retries, sleeps>>

\* ElasticsearchService._connect of the root module: one attempt; a failed
\* ping raises ConnectionError, an exception is raised again as it came
LegacyConnect ==
    /\ conn_backend = "elasticsearch_legacy"
    /\ kpc = "loop"
    /\ \E outcome \in Outcomes :
          /\ attempt_log' = Append(attempt_log, outcome)
          /\ kpc' = IF outcome = "ok" THEN "connected" ELSE "raised"
          /\ conn_error' = CASE outcome = "ok" -> "none"
                             [] outcome = "ping_false" -> "ConnectionError"
                             [] OTHER -> "Exception"
    /\ UNCHANGED <<storeVars, batchVars, ingestVars, chunkVars, embedVars, pairVars, lateVars,
                   conn_backend, max_retries, retries, sleeps>>

ConnectNext ==
    \/ ESConnectAttempt
    \/ ESConnectSleep
    \/ ESConnectRaise
    \/ OSConnect
    \/ LegacyConnect

SpecConnect == ConnectInit /\ [][ConnectNext]_vars

\* every attempt made so far failed
AllAttemptsFailed == \A i \in 1..Len(attempt_log) : attempt_log[i] # "ok"

\* C18: connection setup makes at most max_retries attempts, returns at
\* the first one that succeeds, sleeps only between two attempts, and raises
\* ConnectionError exactly when all max_retries attempts have failed.
C18_BoundedRetryLoop ==
    /\ Len(attempt_log) <= max_retries
    /\ sleeps <= Len(attempt_log)
    /\ kpc = "connected" =>
          /\ attempt_log[Len(attempt_log)] = "ok"
          /\ \A i \in 1..(Len(attempt_log) - 1) : attempt_log[i] # "ok"
          /\ sleeps = Len(attempt_log) - 1
    /\ kpc = "raised" =>
          /\ conn_error = "ConnectionError"
          /\ AllAttemptsFailed
          /\ Len(attempt_log) = max_retries
          /\ sleeps = max_retries - 1
    /\ (kpc = "loop" /\ AllAttemptsFailed /\ Len(attempt_log) = max_retries) =>
          ENABLED ESConnectRaise

\* the name an entry of list_documents carries
EntryName(e) == IF "name" \in DOMAIN e THEN e.name ELSE e.document_name

\* the largest page an entry of list_documents carries
EntryMaxPage(e) == IF "max_page" \in DOMAIN e THEN e.max_page ELSE e.total_pages

\* the positions of the documents written under name n before the call
WrittenUnder(n) ==
    {i \in 1..Len(last.pre.docs) : last.pre.docs[i].document_name = n}

\* C19: list_documents on a reachable store returns exactly one entry for
\* every document name written to the index, with the number of chunks
\* under that name and the largest page_number among them.
C19_ListDocumentsAggregates ==
    (last.op = "list_documents" /\ last.up) =>
        /\ \A e \in last.listed : WrittenUnder(EntryName(e)) # {}
        /\ \A i \in 1..Len(last.pre.docs) :
              LET n == last.pre.docs[i].document_name
                  entries == {e \in last.listed : EntryName(e) = n}
              IN /\ Cardinality(entries) = 1
                 /\ \A e \in entries :
                       /\ "chunks" \in DOMAIN e
                       /\ e.chunks = Cardinality(WrittenUnder(n))
                       /\ \A j \in WrittenUnder(n) :
                             last.pre.docs[j].page_number <= EntryMaxPage(e)
                       /\ \E j \in WrittenUnder(n) :
                             last.pre.docs[j].page_number = EntryMaxPage(e)

(***************************************************************************)
(* The two services of the app side by side: the same operations, each     *)
(* service called the way its own signature wants, on a reachable store.   *)
(***************************************************************************)
\* the parameters of each method after self
Params(service, op) ==
    IF service = "elasticsearch"
    THEN CASE op = "create_index" -> <<>>
           [] op = "index_document" ->
                <<"document_id", "document_name", "page_number", "content", "vector">>
           [] op = "search" -> <<"query_vector", "top_k">>
           [] op = "list_documents" -> <<>>
    ELSE CASE op = "create_index" -> <<"index_name", "dimensions">>
           [] op = "index_document" -> <<"index_name", "document">>
           [] op = "search" -> <<"query_vector", "top_k">>
           [] op = "list_documents" -> <<"index_name">>

\* what both services answered: the field names of every entry of a list,
\* nothing for a bool
PairCall(op, es_fields, os_fields) ==
    [op |-> op,
     es_params |-> Params("elasticsearch", op), os_params |-> Params("opensearch", op),
     es_fields |-> es_fields, os_fields |-> os_fields]

PairInit ==
    /\ es_index = NoIndex
    /\ os_index = NoIndex
    /\ pair_last = [op |-> "none"]
    /\ ChunkIdle
    /\ EmbedIdle
    /\ ConnIdle
    /\ LateIdle
    /\ StoreIdle
    /\ BatchIdle
    /\ IngestIdle

PairCreateIndex ==
    /\ pair_last.op # "off"
    /\ es_index' = ESCreateIndex(es_index, 1, TRUE).index
    /\ os_index' = OSCreateIndex(os_index, 1, TRUE).index
    /\ pair_last' = PairCall("create_index", {}, {})
    /\ UNCHANGED <<storeVars, batchVars, ingestVars, chunkVars, embedVars, connVars, lateVars>>

PairIndexDocument ==
    /\ pair_last.op # "off"
    /\ \E c \in Chunks :
          LET doc(id) == [id |-> id, document_name |-> c.document_name,
                          page_number |-> c.page_number, chunk_index |-> NoField,
                          content |-> c.content, vector |-> <<1>>]
              es == ESIndexDocument(es_index, 1,
                                    doc(DocId(c.document_name, c.page_number)), TRUE, TRUE)
              os == OSIndexDocument(os_index, 1, doc(AutoId(Len(os_index.docs) + 1)),
                                    TRUE, TRUE)
          IN /\ Len(es.index.docs) <= MaxDocs
             /\ Len(os.index.docs) <= MaxDocs
             /\ es_index' = es.index
             /\ os_index' = os.index
             /\ pair_last' = PairCall("index_document", {}, {})
    /\ UNCHANGED <<storeVars, batchVars, ingestVars, chunkVars, embedVars, connVars, lateVars>>

\* the periodic refresh of the store behind the OpenSearchService
PairRefresh ==
    /\ pair_last.op # "off"
    /\ os_index.visible # os_index.docs
    /\ os_index' = [os_index EXCEPT !.visible = os_index.docs]
    /\ pair_last' = [op |-> "refresh"]
    /\ UNCHANGED <<storeVars, batchVars, ingestVars, chunkVars, embedVars, connVars, lateVars,
                   es_index>>

PairSearch ==
    /\ pair_last.op # "off"
    /\ \E k \in 1..MaxTopK :
          LET es == ESSearch(es_index, <<1>>, k, TRUE)
              os == OSSearch(os_index, 1, <<1>>, k, TRUE)
          IN /\ os_index' = os.index
             /\ pair_last' = PairCall("search",
                                      {DOMAIN es[i] : i \in 1..Len(es)},
                                      {DOMAIN os.ret[i] : i \in 1..Len(os.ret)})
    /\ UNCHANGED <<storeVars, batchVars, ingestVars, chunkVars, embedVars, connVars, lateVars,
                   es_index>>

PairListDocuments ==
    /\ pair_last.op # "off"
    /\ LET es == ESListDocuments(es_index, TRUE)
           os == OSListDocuments(os_index, 1, TRUE)
       IN /\ os_index' = os.index
          /\ pair_last' = PairCall("list_documents",
                                   {DOMAIN e : e \in es}, {DOMAIN e : e \in os.ret})
    /\ UNCHANGED <<storeVars, batchVars, ingestVars, chunkVars, embedVars, connVars, lateVars,
                   es_index>>

SpecPair ==
    PairInit /\ [][PairCreateIndex \/ PairIndexDocument \/ PairRefresh
                      \/ PairSearch \/ PairListDocuments]_vars

\* C20: for the same operation, ElasticsearchService and OpenSearchService
\* take the same parameters and, where both return entries, return them
\* with the same field names.
C20_BackendsInterchangeable ==
    pair_last.op \in {"create_index", "index_document", "search", "list_documents"} =>
        /\ pair_last.es_params = pair_last.os_params
        /\ (pair_last.es_fields # {} /\ pair_last.os_fields # {}) =>
              pair_last.es_fields = pair_last.os_fields

\* C21: a delete_index the store answers reports success and leaves the
\* index absent; when the index was absent already it changes nothing, so a
\* second call in a row ends in the state the first one left.
C21_DeleteIndexIdempotent ==
    (last.op = "delete_index" /\ last.answered) =>
        /\ last.ok
        /\ ~index.exists
        /\ ~last.pre.exists => index = last.pre

\* delete_index has run on an absent index and reported success
C21_Witness ==
    /\ last.op = "delete_index"
    /\ last.answered
    /\ ~last.pre.exists
    /\ last.ok
    /\ index = NoIndex

\* C22: when process_document of the app has indexed at least one page of
\* a document, what it returns is not None and carries a document_id and a
\* status that says "success".
C22_ResultHasIdAndStatus ==
    \A i \in 1..Len(visited) :
        (processor = "app" /\ visited[i].ok) =>
            /\ visited[i].result # <<>>
            /\ \A r \in {visited[i].result[j] : j \in 1..Len(visited[i].result)} :
                  /\ "document_id" \in DOMAIN r
                  /\ "status" \in DOMAIN r
                  /\ r.status = "success"

(***************************************************************************)
(* The routes /process and /search of the app under concurrent requests.   *)
(* Both handlers are coroutines that never await: the event loop of the    *)
(* one server process runs a handler from its first line to its return     *)
(* before it takes up the next request.                                    *)
(***************************************************************************)
MaxRequests == 3
MaxIndexCalls == 2

\* mutant: every request gets a thread of its own
LoopFreeAlways(reqs) == TRUE

\* the event loop is free when no handler is between its start and its return
LoopFree(reqs) == \A r \in 1..Len(reqs) : reqs[r].pc \in {"queued", "done"}

ServeInit ==
    /\ requests \in [1..MaxRequests ->
                       {[kind |-> k, pc |-> "queued", left |-> MaxIndexCalls] :
                          k \in {"process", "search"}}]
    /\ reindex_by = 0
    /\ store_call = [op |-> "none", by |-> 0, during |-> 0]
    /\ FolderIdle
    /\ RetryIdle
    /\ ChunkIdle
    /\ EmbedIdle
    /\ ConnIdle
    /\ PairIdle
    /\ StoreIdle
    /\ BatchIdle
    /\ IngestIdle

\* the event loop starts the handler of a waiting request
ServeDispatch(r) ==
    /\ requests[r].pc = "queued"
    /\ LoopFree(requests)
    /\ requests' = [requests EXCEPT ![r].pc =
                       IF requests[r].kind = "process" THEN "delete" ELSE "search"]
    /\ UNCHANGED <<reindex_by, store_call>>
    /\ UNCHANGED serveRest

\* DocumentProcessor.create_index, first half: self.vector_db.delete_index()
ServeDeleteIndex(r) ==
    /\ requests[r].pc = "delete"
    /\ requests' = [requests EXCEPT ![r].pc = "create"]
    /\ store_call' = [op |-> "delete_index", by |-> r, during |-> reindex_by]
    /\ reindex_by' = r
    /\ UNCHANGED serveRest

\* second half: self.vector_db.create_index() returns; when it reports
\* failure the handler raises and the request ends
ServeCreateIndex(r) ==
    /\ requests[r].pc = "create"
    /\ \E success \in BOOLEAN :
          requests' = [requests EXCEPT ![r].pc = IF success THEN "index" ELSE "done"]
    /\ store_call' = [op |-> "create_index", by |-> r, during |-> reindex_by]
    /\ reindex_by' = IF reindex_by = r THEN 0 ELSE reindex_by
    /\ UNCHANGED serveRest

\* process_document: one index_document call of the loop over the files
ServeIndexDocument(r) ==
    /\ requests[r].pc = "index"
    /\ requests[r].left > 0
    /\ requests' = [requests EXCEPT ![r].left = @ - 1]
    /\ store_call' = [op |-> "index_document", by |-> r, during |-> reindex_by]
    /\ UNCHANGED reindex_by
    /\ UNCHANGED serveRest

\* process_all_documents returns and the route answers
ServeProcessReturn(r) ==
    /\ requests[r].pc = "index"
    /\ requests' = [requests EXCEPT ![r].pc = "done"]
    /\ UNCHANGED <<reindex_by, store_call>>
    /\ UNCHANGED serveRest

\* the handler of /search: processor.search, then the answer
ServeSearch(r) ==
    /\ requests[r].pc = "search"
    /\ requests' = [requests EXCEPT ![r].pc = "done"]
    /\ store_call' = [op |-> "search", by |-> r, during |-> reindex_by]
    /\ UNCHANGED reindex_by
    /\ UNCHANGED serveRest

ServeNext ==
    \E r \in 1..MaxRequests :
       \/ ServeDispatch(r)
       \/ ServeDeleteIndex(r)
       \/ ServeCreateIndex(r)
       \/ ServeIndexDocument(r)
       \/ ServeProcessReturn(r)
       \/ ServeSearch(r)

SpecServe == ServeInit /\ [][ServeNext]_vars

Windowed ==
    /\ epc = "done"
    /\ Len(embed_text) > max_length
    /\ embedding.raised = "none"

\* the words of sub-chunk j + 1 that follow the overlap it should start with
FreshWords(chunks, j) ==
    LET k == Len(chunks[j]) \div 5
    IN SubSeq(chunks[j + 1], k + 1, Len(chunks[j + 1]))

RECURSIVE FreshFrom(_, _)
FreshFrom(chunks, j) ==
    IF j >= Len(chunks) THEN <<>> ELSE FreshWords(chunks, j) \o FreshFrom(chunks, j + 1)

\* C24: every sub-chunk after the first starts with the last floor(0.2 * n)
\* words of the n-word sub-chunk before it, none when that number is 0, and
\* goes on with the input words not yet consumed.
C24_OverlapIsLastFifth ==
    Windowed =>
        LET chunks == embedding.chunks
        IN /\ \A j \in 1..(Len(chunks) - 1) :
                 LET n == Len(chunks[j])
                     k == n \div 5
                 IN /\ Len(chunks[j + 1]) >= k
                    /\ SubSeq(chunks[j + 1], 1, k) = SubSeq(chunks[j], n - k + 1, n)
           /\ chunks # <<>> =>
                 chunks[1] \o FreshFrom(chunks, 1) = SplitWords(embed_text, 1, 0, <<>>)

\* len(' '.join(chunk)): the letters and one blank between two words
JoinedLength(chunk) == IF chunk = <<>> THEN 0 ELSE LengthOfWords(chunk) - 1

\* ws is a subsequence of the concatenation of the sub-chunks from j on,
\* taken in order: every word is found in some sub-chunk, none before the
\* sub-chunk of the word in front of it
RECURSIVE CoveredInOrder(_, _, _)
CoveredInOrder(ws, chunks, j) ==
    IF ws = <<>> THEN TRUE
    ELSE IF j > Len(chunks) THEN FALSE
    ELSE \/ \E i \in 1..Len(chunks[j]) :
               /\ chunks[j][i] = ws[1]
               /\ CoveredInOrder(Tail(ws),
                                 [c \in 1..Len(chunks) |->
                                    IF c = j THEN SubSeq(chunks[j], i + 1, Len(chunks[j]))
                                    ELSE chunks[c]], j)
         \/ CoveredInOrder(ws, chunks, j + 1)

\* C25: every sub-chunk that is encoded is non-empty and, unless it is one
\* single word, at most 80% of the model's max length long; every word of
\* the input is in a sub-chunk, the words in their order.
C25_SubChunksBounded ==
    Windowed =>
        /\ \A j \in 1..Len(embedding.encoded) :
              LET chunk == embedding.encoded[j]
              IN /\ chunk # <<>>
                 /\ Len(chunk) > 1 => 5 * JoinedLength(chunk) <= 4 * max_length
        /\ CoveredInOrder(SplitWords(embed_text, 1, 0, <<>>), embedding.encoded, 1)

\* the windows of the text the loop looks at: not blank, not template text
SeenWindows(text) ==
    {i \in 1..Len(text) : ~IsBlank(text[i]) /\ ~IsTemplateText(text[i])}

\* the position of the most recent header at or before window w, 0 if none
HeaderBefore(text, w) ==
    LET hs == {i \in SeenWindows(text) : i <= w /\ IsSectionHeader(text[i])}
    IN IF hs = {} THEN 0 ELSE CHOOSE h \in hs : \A i \in hs : i <= h

\* the windows seen from position i up to w, in order
RECURSIVE SeenFrom(_, _, _)
SeenFrom(text, i, w) ==
    IF i > w THEN <<>>
    ELSE (IF i \in SeenWindows(text) THEN <<text[i]>> ELSE <<>>) \o SeenFrom(text, i + 1, w)

\* the position of the k-th window that is emitted
RECURSIVE EmittedAt(_, _, _)
EmittedAt(text, k, i) ==
    IF i \in PassingWindows(text)
    THEN IF k = 1 THEN i ELSE EmittedAt(text, k - 1, i + 1)
    ELSE EmittedAt(text, k, i + 1)

\* C26: no chunk is a header window; a chunk cut from a window carries the
\* most recent header as section ("main" before the first one) and as
\* context the last 3 windows seen since that header, itself the last.
C26_SectionTracking ==
    cpc = "done" =>
        /\ \A c \in 1..Len(processed_chunks) : ~IsSectionHeader(processed_chunks[c].text)
        /\ PassingWindows(doc_text) # {} =>
              /\ Len(processed_chunks) = Cardinality(PassingWindows(doc_text))
              /\ \A k \in 1..Len(processed_chunks) :
                    LET w == EmittedAt(doc_text, k, 1)
                        h == HeaderBefore(doc_text, w)
                        chunk == processed_chunks[k]
                    IN /\ chunk.text = doc_text[w]
                       /\ chunk.section = IF h = 0 THEN <<"main">> ELSE doc_text[h]
                       /\ chunk.context = LastThree(SeenFrom(doc_text, IF h = 0 THEN 1 ELSE h, w))
                       /\ Len(chunk.context) <= 3
                       /\ chunk.context[Len(chunk.context)] = chunk.text

\* the names of the documents process_all_documents reports as processed
SuccessNames ==
    IF processor = "app"
    THEN {processed_files[i].filename : i \in 1..Len(processed_files)}
    ELSE {walk[j].name : j \in {k \in 1..Len(walk) :
                                  \E i \in 1..Len(processed_files) :
                                     processed_files[i] = walk[k].path}}

\* C27: when process_all_documents has returned, every chunk in the index
\* belongs to a document of the returned list: a document that failed has
\* left nothing behind.
C27_AllOrNothingPerDocument ==
    ipc = "done" =>
        \A d \in 1..Len(index.docs) : index.docs[d].document_name \in SuccessNames

\* C28: a call other than create_index that finds the index absent leaves
\* it absent: search, list_documents and index_document create no index.
C28_OnlyCreateIndexCreates ==
    (last.op \in {"search", "list_documents", "index_document"} /\ ~last.pre.exists) =>
        ~index.exists

\* ---- folder ingestion requests (app/api/routes/folder_ingestion.py) ----

MaxIngestions == 3
MaxDays == 2
Users == {1, 2}
\* folder.folder_path.split('/')
FolderPaths == {<<"p", "q", "r">>, <<"p", "q", "s">>, <<"p", "q">>}
IngestionStatus == {"PENDING", "PROCESSING", "COMPLETED", "FAILED"}
\* a field of FolderIngestionUpdate the request body leaves out
Unset == "unset"

FolderIngestion(folder_path, user_id, status, created_at) ==
    [folder_path |-> folder_path, user_id |-> user_id, status |-> status,
     created_at |-> created_at]

HTTPResponse(op, status_code, id) == [op |-> op, status_code |-> status_code, id |-> id]

\* the query of create_folder_ingestion: the rows of this folder that are
\* PENDING or PROCESSING and were created on the given day
ExistingIngestion(rows, folder_path, day) ==
    {i \in 1..Len(rows) :
        /\ rows[i].folder_path = folder_path
        /\ rows[i].status \in {"PENDING", "PROCESSING"}
        /\ rows[i].created_at = day}

FolderInit ==
    /\ ingestions = <<>>
    /\ today = 1
    /\ folder_last = [op |-> "none"]
    /\ ServeIdle
    /\ RetryIdle
    /\ ChunkIdle
    /\ EmbedIdle
    /\ ConnIdle
    /\ PairIdle
    /\ StoreIdle
    /\ BatchIdle
    /\ IngestIdle

\* POST /folders/ingest. The handler is a coroutine without an await, so the
\* event loop runs it from its first line to its response in one step.
CreateFolderIngestion(folder_path, user, in_sharepoint, lambda_ok) ==
    /\ folder_last.op # "off"
    /\ Len(ingestions) < MaxIngestions
    /\ IF Len(folder_path) # 3
       THEN /\ folder_last' = HTTPResponse("create", 400, 0)
            /\ UNCHANGED ingestions
       ELSE IF ~in_sharepoint
       THEN /\ folder_last' = HTTPResponse("create", 404, 0)
            /\ UNCHANGED ingestions
       ELSE IF ExistingIngestion(ingestions, folder_path, today) # {}
       THEN /\ folder_last' = HTTPResponse("create", 409, 0)
            /\ UNCHANGED ingestions
       ELSE /\ ingestions' = Append(ingestions,
                                    FolderIngestion(folder_path, user,
                                                    IF lambda_ok THEN "PROCESSING" ELSE "FAILED",
                                                    today))
            /\ folder_last' = HTTPResponse("create", IF lambda_ok THEN 200 ELSE 500,
                                           Len(ingestions) + 1)
    /\ UNCHANGED today
    /\ UNCHANGED folderRest

\* PATCH /folders/ingestions/{ingestion_id}
UpdateFolderIngestion(ingestion_id, user, status) ==
    /\ folder_last.op # "off"
    /\ IF ingestion_id \in 1..Len(ingestions) /\ ingestions[ingestion_id].user_id = user
       THEN /\ ingestions' = IF status = Unset THEN ingestions
                             ELSE [ingestions EXCEPT ![ingestion_id].status = status]
            /\ folder_last' = HTTPResponse("update", 200, ingestion_id)
       ELSE /\ folder_last' = HTTPResponse("update", 404, 0)
            /\ UNCHANGED ingestions
    /\ UNCHANGED today
    /\ UNCHANGED folderRest

\* PATCH /folders/ingestions/{ingestion_id}/callback
LambdaCallbackUpdate(ingestion_id, status) ==
    /\ folder_last.op # "off"
    /\ IF ingestion_id \in 1..Len(ingestions)
       THEN /\ ingestions' = IF status = Unset THEN ingestions
                             ELSE [ingestions EXCEPT ![ingestion_id].status = status]
            /\ folder_last' = HTTPResponse("callback", 200, ingestion_id)
       ELSE /\ folder_last' = HTTPResponse("callback", 404, 0)
            /\ UNCHANGED ingestions
    /\ UNCHANGED today
    /\ UNCHANGED folderRest

\* midnight passes
NextDay ==
    /\ folder_last.op # "off"
    /\ today < MaxDays
    /\ today' = today + 1
    /\ folder_last' = [op |-> "midnight"]
    /\ UNCHANGED ingestions
    /\ UNCHANGED folderRest

FolderNext ==
    \/ \E folder_path \in FolderPaths, user \in Users, in_sharepoint \in BOOLEAN,
          lambda_ok \in BOOLEAN :
          CreateFolderIngestion(folder_path, user, in_sharepoint, lambda_ok)
    \/ \E ingestion_id \in 1..MaxIngestions, user \in Users,
          status \in IngestionStatus \cup {Unset} :
          UpdateFolderIngestion(ingestion_id, user, status)
    \/ \E ingestion_id \in 1..MaxIngestions, status \in IngestionStatus \cup {Unset} :
          LambdaCallbackUpdate(ingestion_id, status)
    \/ NextDay

SpecFolder == FolderInit /\ [][FolderNext]_vars

\* C29: a folder never has two ingestions of the same day that are PENDING
\* or PROCESSING.
C29_OneActiveIngestionPerFolderPerDay ==
    \A folder_path \in FolderPaths, day \in 1..MaxDays :
        Cardinality(ExistingIngestion(ingestions, folder_path, day)) <= 1

\* ---- SharePointService._make_request_with_retry ----

MaxAttempts == 3
MaxCalls == 2
\* self.token = None
NoToken == 0
\* response.status_code of the answers that matter to the loop
StatusCodes == {"200", "401", "404"}

\* _get_token: the cached token while it is valid, else a token of the
\* identity provider, else the exception for a result without access_token
GetToken(tok, valid, acquire_ok, count) ==
    IF tok # NoToken /\ valid
    THEN [raised |-> FALSE, token |-> tok, valid |-> valid, how |-> "cached"]
    ELSE IF acquire_ok
    THEN [raised |-> FALSE, token |-> count + 1, valid |-> TRUE, how |-> "acquired"]
    ELSE [raised |-> TRUE, token |-> tok, valid |-> valid, how |-> "failed"]

TokenKept(tok, valid) == [token |-> tok, valid |-> valid]

\* self.token = None; self.token_expires_at = 0
TokenCleared(tok, valid) == [token |-> NoToken, valid |-> FALSE]

Attempt(how, tok, outcome) == [how |-> how, token |-> tok, outcome |-> outcome]

\* the requests the attempts of the log have sent
HttpRequests(log) == {i \in 1..Len(log) : log[i].outcome # "no_request"}

RetryInit ==
    /\ token = NoToken
    /\ token_valid = FALSE
    /\ minted = 0
    /\ request_retries = 0
    /\ attempt = 0
    /\ request_log = <<>>
    /\ sp_return = "idle"
    /\ sp_calls = 0
    /\ ServeIdle
    /\ FolderIdle
    /\ ChunkIdle
    /\ EmbedIdle
    /\ ConnIdle
    /\ PairIdle
    /\ StoreIdle
    /\ BatchIdle
    /\ IngestIdle

\* a method of the service calls _make_request_with_retry(url, headers, n)
MakeRequestWithRetry(n) ==
    /\ sp_return \notin {"off", "running"}
    /\ sp_calls < MaxCalls
    /\ sp_calls' = sp_calls + 1
    /\ request_retries' = n
    /\ attempt' = 0
    /\ request_log' = <<>>
    /\ sp_return' = "running"
    /\ UNCHANGED <<token, token_valid, minted>>
    /\ UNCHANGED retryRest

\* one pass of the loop body; expired says that the cached token has run
\* out since the last pass, outcome is a status code or "exception"
MakeRequestAttempt(expired, acquire_ok, outcome) ==
    /\ sp_return = "running"
    /\ attempt < request_retries
    /\ LET got == GetToken(token, token_valid /\ ~expired, acquire_ok, minted)
           final == attempt = request_retries - 1
       IN  /\ minted' = IF got.how = "acquired" THEN minted + 1 ELSE minted
           /\ IF got.raised \/ outcome = "exception"
              THEN /\ request_log' = Append(request_log,
                                            Attempt(got.how, got.token,
                                                    IF got.raised THEN "no_request"
                                                    ELSE outcome))
                   /\ token' = got.token
                   /\ token_valid' = got.valid
                   /\ sp_return' = IF final THEN "raised" ELSE "running"
                   /\ attempt' = attempt + 1
              ELSE IF outcome = "401" /\ ~final
              THEN /\ request_log' = Append(request_log, Attempt(got.how, got.token, outcome))
                   /\ token' = TokenCleared(got.token, got.valid).token
                   /\ token_valid' = TokenCleared(got.token, got.valid).valid
                   /\ sp_return' = "running"
                   /\ attempt' = attempt + 1
              ELSE /\ request_log' = Append(request_log, Attempt(got.how, got.token, outcome))
                   /\ token' = got.token
                   /\ token_valid' = got.valid
                   /\ sp_return' = "response"
                   /\ UNCHANGED attempt
    /\ UNCHANGED <<request_retries, sp_calls>>
    /\ UNCHANGED retryRest

\* the loop has run out of passes: return None
MakeRequestFallThrough ==
    /\ sp_return = "running"
    /\ attempt >= request_retries
    /\ sp_return' = "None"
    /\ UNCHANGED <<token, token_valid, minted, request_retries, attempt, request_log,
                   sp_calls>>
    /\ UNCHANGED retryRest

RetryNext ==
    \/ \E n \in 0..MaxAttempts : MakeRequestWithRetry(n)
    \/ \E expired \in BOOLEAN, acquire_ok \in BOOLEAN,
          outcome \in StatusCodes \cup {"exception"} :
          MakeRequestAttempt(expired, acquire_ok, outcome)
    \/ MakeRequestFallThrough

SpecRetry == RetryInit /\ [][RetryNext]_vars

\* C30: a call with max_retries >= 1 sends at most max_retries requests,
\* ends with a response or an exception and never with None, and after a 401
\* on a pass that is not the last the cached token is gone and the next pass
\* goes to the identity provider, whose token, when it gives one, is new.
C30_RetryBoundedNeverNone ==
    (sp_return # "off" /\ request_retries >= 1) =>
        /\ Cardinality(HttpRequests(request_log)) <= request_retries
        /\ sp_return # "None"
        /\ sp_return = "running" => attempt < request_retries
        /\ \A i \in 1..Len(request_log) :
              (request_log[i].outcome = "401" /\ i < request_retries) =>
                  /\ (i = Len(request_log)) => token = NoToken
                  /\ (i < Len(request_log)) =>
                        /\ request_log[i + 1].how # "cached"
                        /\ request_log[i + 1].how = "acquired" =>
                              request_log[i + 1].token # request_log[i].token

\* a cached token drew a 401, the next pass acquired another one and the
\* call returned the response it then got
C30_Witness ==
    /\ sp_return = "response"
    /\ Len(request_log) >= 2
    /\ request_log[1].how = "cached"
    /\ request_log[1].outcome = "401"
    /\ request_log[2].how = "acquired"
    /\ request_log[2].outcome = "200"

====
